---- MODULE Spec2Model ----
(***************************************************************************)
(* A model of the capability admission and sandboxed execution engine of   *)
(* the probe agents kit: manifest validation and admission                 *)
(* (src/manifest/validator.ts), the action processor with its sliding      *)
(* window and energy ledger, and the step executor                         *)
(* (src/sandbox/executor.ts).                                              *)
(*                                                                         *)
(* JavaScript values are modelled as tagged records so that undefined,     *)
(* null and NaN keep the behaviour they have in the source: a number is    *)
(* [t |-> "number", v |-> n], and every comparison with NaN is false.      *)
(* Noise floors are fractions in the source; the model counts them in      *)
(* hundredths (0.2 is 20).                                                 *)
(***************************************************************************)
EXTENDS Integers, Sequences, FiniteSets, TLC

VARIABLES
    manifest,     \* the manifest document submitted for registration
    policy,       \* the world policy in force
    validation,   \* result of validateManifest, or NoValue
    admission,    \* result of performAdmission, or NoValue
    apc,          \* position of the registration flow
    jsonString,   \* the text given to loadManifest, or NoValue
    loaded,       \* how the loadManifest call ended, or NoValue
    ctx,          \* the agent's SandboxContext
    energy,       \* the host's energy ledger entry for the agent
    tick,         \* the host's current tick
    last,         \* inputs and outputs of the last processActions call
    calls,        \* number of processActions calls made so far
    hist,         \* real ticks at which actions were executed
    limitedAt,    \* tick of the latest RATE_LIMIT_EXCEEDED rejection, or -1
    step,         \* what the agent's step function does in this call
    spc,          \* position of executeStep
    clock,        \* milliseconds since executeStep took startTime
    timerFired,   \* the timeout callback has run
    stepResult,   \* how executeStep's promise settled, or NoValue
    probe,        \* a probe archetype: its configuration, AgentState and position
    wire,         \* the requests the probe has sent in its current step
    http,         \* a retrying call (HttpClient, callFruxLLM): attempts and outcome
    runner        \* the runner's main loop: tick count, phase, steps in flight

admVars  == <<manifest, policy, validation, admission, apc, jsonString, loaded>>
sbxVars  == <<ctx, energy, tick, last, calls, hist, limitedAt>>
stepVars == <<step, spc, clock, timerFired, stepResult>>
netVars  == <<probe, wire, http, runner>>
vars     == <<manifest, policy, validation, admission, apc, jsonString, loaded,
              ctx, energy, tick, last, calls, hist, limitedAt,
              step, spc, clock, timerFired, stepResult,
              probe, wire, http, runner>>

NoValue == [t |-> "none"]

(***************************************************************************)
(* JavaScript values and the operators the source applies to them          *)
(***************************************************************************)
Undefined == [t |-> "undefined"]
Null      == [t |-> "null"]
NaN       == [t |-> "NaN"]
Num(n)    == [t |-> "number", v |-> n]

IsNum(x)     == x.t = "number"
IsNullish(x) == x.t \in {"undefined", "null"}

\* a ?? b
Coalesce(a, b) == IF IsNullish(a) THEN b ELSE a

\* ToNumber as Math.min / Math.max apply it to their arguments
ToNumber(x) ==
    CASE x.t = "number" -> x
      [] x.t = "null"   -> Num(0)
      [] OTHER          -> NaN

MathMin(a, b) ==
    LET x == ToNumber(a)
        y == ToNumber(b)
    IN  IF IsNum(x) /\ IsNum(y)
        THEN Num(IF x.v <= y.v THEN x.v ELSE y.v)
        ELSE NaN

MathMax(a, b) ==
    LET x == ToNumber(a)
        y == ToNumber(b)
    IN  IF IsNum(x) /\ IsNum(y)
        THEN Num(IF x.v >= y.v THEN x.v ELSE y.v)
        ELSE NaN

\* a <= b and a >= b on JavaScript numbers: false when either is NaN
Lte(a, b) == IsNum(a) /\ IsNum(b) /\ a.v <= b.v
Gte(a, b) == IsNum(a) /\ IsNum(b) /\ a.v >= b.v

\* Array.prototype.includes and Array.prototype.filter(x => list.includes(x))
Includes(list, x) == \E i \in 1..Len(list) : list[i] = x
FilterIncluded(list, allowed) ==
    LET keep(x) == Includes(allowed, x) IN SelectSeq(list, keep)

Min2(a, b) == IF a <= b THEN a ELSE b
Max2(a, b) == IF a >= b THEN a ELSE b

Str(s)  == [t |-> "string", s |-> s]
Bool(b) == [t |-> "boolean", b |-> b]
\* an array of capability names
Arr(items) == [t |-> "array", items |-> items]
\* a version string, as its dot-separated components; a component that is
\* not a run of digits is written -1
Ver(parts) == [t |-> "string", parts |-> parts]
\* an agent name, as the classes of its characters:
\* "alpha" [a-zA-Z], "digit" [0-9], "dash" [_-], "other"
Name(chars) == [t |-> "string", chars |-> chars]

(***************************************************************************)
(* src/manifest/types.ts                                                   *)
(***************************************************************************)
AgentCapability == {"MOVE", "SENSE", "GENERATE_TRACE", "PROPOSE_PACT", "INQUIRY"}
AgentKind == {"WASM", "PROCESS", "BUILTIN"}

RateLimit(w, m) == [t |-> "object", windowTicks |-> w, max |-> m]
ObsBudget(c, f, n) == [t |-> "object", maxCells |-> c, maxFields |-> f, noiseFloor |-> n]
EnergyBudget(p, r) == [t |-> "object", maxPerTick |-> p, maxReserve |-> r]

MANIFEST_DEFAULTS ==
    [ maxActionsPerWindow    |-> RateLimit(Num(200), Num(10)),
      computeBudgetMsPerTick |-> Num(10),
      observationBudget      |-> ObsBudget(Num(9), Num(12), Num(20)),
      energyBudget           |-> EnergyBudget(Num(20), Num(200)),
      minHabitatVersion      |-> Ver(<<0, 12, 0>>) ]

(***************************************************************************)
(* src/manifest/validator.ts                                               *)
(***************************************************************************)
DEFAULT_WORLD_POLICY ==
    [ maxCapabilities      |-> <<"MOVE", "SENSE", "GENERATE_TRACE", "INQUIRY">>,
      maxActionRate        |-> [windowTicks |-> 200, max |-> 5],
      maxComputeBudgetMs   |-> 10,
      minObservationNoise  |-> 20,
      maxObservationCells  |-> 9,
      maxEnergyPerTick     |-> 20,
      quarantineThirdParty |-> TRUE,
      habitatVersion       |-> Ver(<<0, 12, 0>>) ]

MaxNameLength == 64
MinComputeBudget == 1
MaxComputeBudget == 100
MaxNoiseFloor == 100

\* /^[a-zA-Z][a-zA-Z0-9_-]*$/.test(name)
NamePattern(chars) ==
    /\ Len(chars) >= 1
    /\ chars[1] = "alpha"
    /\ \A i \in 1..Len(chars) : chars[i] \in {"alpha", "digit", "dash"}

\* the errors of the agent section, as their paths
AgentErrors(m) ==
    IF m.agent.t # "object"
    THEN <<"agent">>
    ELSE LET agent == m.agent
             nameErr ==
                 IF agent.name.t # "string" \/ Len(agent.name.chars) = 0
                 THEN <<"agent.name">>
                 ELSE IF ~NamePattern(agent.name.chars)
                 THEN <<"agent.name">>
                 ELSE IF Len(agent.name.chars) > MaxNameLength
                 THEN <<"agent.name">>
                 ELSE <<>>
             kindErr ==
                 IF agent.kind.t = "string" /\ agent.kind.s \in AgentKind
                 THEN <<>> ELSE <<"agent.kind">>
             entryErr ==
                 IF agent.entry.t # "string" \/ agent.entry.s = ""
                 THEN <<"agent.entry">> ELSE <<>>
         IN  nameErr \o kindErr \o entryErr

\* one error per capability outside the vocabulary
CapabilityErrors(caps) ==
    IF caps.t # "array" \/ Len(caps.items) = 0
    THEN <<"requested.capabilities">>
    ELSE LET bad(c) == c \notin AgentCapability
         IN  [i \in 1..Len(SelectSeq(caps.items, bad)) |-> "requested.capabilities"]

ComputeBudgetErrors(budget) ==
    IF budget.t = "undefined" THEN <<>>
    ELSE IF budget.t = "NaN" THEN <<>>   \* typeof NaN is 'number'; NaN < 1 and NaN > 100 are false
    ELSE IF budget.t = "number" /\ budget.v >= MinComputeBudget /\ budget.v <= MaxComputeBudget
    THEN <<>>
    ELSE <<"requested.computeBudgetMsPerTick">>

\* reading obs.noiseFloor of null throws a TypeError
ObservationThrows(req) == req.observationBudget.t = "null"

ObservationErrors(obs) ==
    IF obs.t # "object" THEN <<>>        \* undefined, or a primitive whose noiseFloor is undefined
    ELSE LET noise == obs.noiseFloor
         IN  IF noise.t = "undefined" THEN <<>>
             ELSE IF noise.t = "NaN" THEN <<>>
             ELSE IF noise.t = "number" /\ noise.v >= 0 /\ noise.v <= MaxNoiseFloor
             THEN <<>>
             ELSE <<"requested.observationBudget.noiseFloor">>

\* the requested section checked only up to its first error
MutRequestedErrorsFirstOnly(m) ==
    IF m.requested.t # "object"
    THEN <<"requested">>
    ELSE IF CapabilityErrors(m.requested.capabilities) # <<>>
    THEN CapabilityErrors(m.requested.capabilities)
    ELSE IF ComputeBudgetErrors(m.requested.computeBudgetMsPerTick) # <<>>
    THEN ComputeBudgetErrors(m.requested.computeBudgetMsPerTick)
    ELSE ObservationErrors(m.requested.observationBudget)

RequestedErrors(m) ==
    IF m.requested.t # "object"
    THEN <<"requested">>
    ELSE CapabilityErrors(m.requested.capabilities)
         \o ComputeBudgetErrors(m.requested.computeBudgetMsPerTick)
         \o ObservationErrors(m.requested.observationBudget)

ValidationResult(errors) ==
    [t |-> "result", threw |-> FALSE, valid |-> (Len(errors) = 0), errors |-> errors]
ValidationThrew ==
    [t |-> "result", threw |-> TRUE, valid |-> FALSE, errors |-> <<>>]

validateManifest(m) ==
    IF m.t \notin {"object", "array"}
    THEN [t |-> "result", threw |-> FALSE, valid |-> FALSE, errors |-> <<"">>]
    ELSE IF m.t = "array"      \* typeof [] is 'object'; none of the fields is there
    THEN ValidationResult(<<"manifestVersion", "agent", "requested">>)
    ELSE IF m.requested.t = "object" /\ ObservationThrows(m.requested)
    THEN ValidationThrew
    ELSE ValidationResult(
             (IF m.manifestVersion = Str("1.0") THEN <<>> ELSE <<"manifestVersion">>)
             \o AgentErrors(m) \o RequestedErrors(m))

\* version.match(...) on a value that is no string: a TypeError
SemverThrows(version) == version.t # "string"

\* null when the string is not three dot-separated runs of digits
parseSemver(version) ==
    IF Len(version.parts) = 3 /\ \A i \in 1..3 : version.parts[i] >= 0
    THEN version.parts
    ELSE <<>>

compareSemver(a, b) ==
    LET pa == parseSemver(a)
        pb == parseSemver(b)
    IN  IF pa = <<>> \/ pb = <<>> THEN 0
        ELSE IF pa[1] < pb[1] THEN -1
        ELSE IF pa[1] > pb[1] THEN 1
        ELSE IF pa[2] < pb[2] THEN -1
        ELSE IF pa[2] > pb[2] THEN 1
        ELSE IF pa[3] < pb[3] THEN -1
        ELSE IF pa[3] > pb[3] THEN 1
        ELSE 0

\* a text is well-formed JSON for a value, or it is not JSON
JsonText(value) == [t |-> "string", wellFormed |-> TRUE, value |-> value]
NotJson == [t |-> "string", wellFormed |-> FALSE]

\* how a call of loadManifest ends: with a return value, or with an exception
LoadResult(m, result) == [t |-> "returned", manifest |-> m, validation |-> result]
LoadThrew == [t |-> "threw"]

\* JSON.parse throws on a text that is not JSON, and that is caught
loadManifest(text) ==
    IF ~text.wellFormed
    THEN LoadResult(Undefined, ValidationResult(<<"">>))
    ELSE LET parsed == text.value
             v      == validateManifest(parsed)
         IN  IF v.threw THEN LoadThrew
             ELSE IF ~v.valid THEN LoadResult(Undefined, v)
             ELSE LoadResult(parsed, v)

\* manifest.compat?.minHabitatVersion ?? MANIFEST_DEFAULTS.minHabitatVersion
MinVersionOf(m) ==
    Coalesce(IF IsNullish(m.compat) THEN Undefined ELSE m.compat.minHabitatVersion,
             MANIFEST_DEFAULTS.minHabitatVersion)

\* compareSemver parses both arguments before it looks at either result
VersionThrows(m, p) == SemverThrows(p.habitatVersion) \/ SemverThrows(MinVersionOf(m))

VersionRejected(m, p) == compareSemver(p.habitatVersion, MinVersionOf(m)) < 0

\* the policy ceiling not applied to the requested capabilities
MutGrantedCapsUnfiltered(m, p) == m.requested.capabilities.items

GrantedCaps(m, p) == FilterIncluded(m.requested.capabilities.items, p.maxCapabilities)

\* the shorter window granted: min where the source has max
MutGrantedRateShorterWindow(m, p) ==
    LET reqRate == Coalesce(m.requested.maxActionsPerWindow, MANIFEST_DEFAULTS.maxActionsPerWindow)
    IN  [ windowTicks |-> MathMin(reqRate.windowTicks, Num(p.maxActionRate.windowTicks)),
          max         |-> MathMin(reqRate.max, Num(p.maxActionRate.max)) ]

GrantedRate(m, p) ==
    LET reqRate == Coalesce(m.requested.maxActionsPerWindow, MANIFEST_DEFAULTS.maxActionsPerWindow)
    IN  [ windowTicks |-> MathMax(reqRate.windowTicks, Num(p.maxActionRate.windowTicks)),
          max         |-> MathMin(reqRate.max, Num(p.maxActionRate.max)) ]

GrantedCompute(m, p) ==
    MathMin(Coalesce(m.requested.computeBudgetMsPerTick, MANIFEST_DEFAULTS.computeBudgetMsPerTick),
            Num(p.maxComputeBudgetMs))

\* the lower noise floor granted: min where the source has max
MutGrantedObsLowerNoise(m, p) ==
    LET reqObs == Coalesce(m.requested.observationBudget, MANIFEST_DEFAULTS.observationBudget)
    IN  [ maxCells   |-> MathMin(reqObs.maxCells, Num(p.maxObservationCells)),
          maxFields  |-> reqObs.maxFields,
          noiseFloor |-> MathMin(reqObs.noiseFloor, Num(p.minObservationNoise)) ]

GrantedObs(m, p) ==
    LET reqObs == Coalesce(m.requested.observationBudget, MANIFEST_DEFAULTS.observationBudget)
    IN  [ maxCells   |-> MathMin(reqObs.maxCells, Num(p.maxObservationCells)),
          maxFields  |-> reqObs.maxFields,
          noiseFloor |-> MathMax(reqObs.noiseFloor, Num(p.minObservationNoise)) ]

GrantedEnergy(m, p) ==
    LET reqEnergy == Coalesce(m.requested.energyBudget, MANIFEST_DEFAULTS.energyBudget)
    IN  [ maxPerTick |-> MathMin(reqEnergy.maxPerTick, Num(p.maxEnergyPerTick)),
          maxReserve |-> reqEnergy.maxReserve ]

\* the BUILTIN exemption dropped
MutInQuarantineBuiltinToo(m, p) ==
    p.quarantineThirdParty
    \/ (~IsNullish(m.quarantine) /\ m.quarantine.required = Bool(TRUE))

\* manifest.quarantine?.required ?? false
ForceQuarantine(m) ==
    LET r == Coalesce(IF IsNullish(m.quarantine) THEN Undefined ELSE m.quarantine.required,
                      Bool(FALSE))
    IN  r = Bool(TRUE)

InQuarantine(m, p) ==
    m.agent.kind.s # "BUILTIN" /\ (p.quarantineThirdParty \/ ForceQuarantine(m))

ShardId(m, p) ==
    IF InQuarantine(m, p) /\ ~IsNullish(m.quarantine) THEN m.quarantine.shardId ELSE Undefined

\* an exception left performAdmission
AdmissionThrew == [t |-> "threw"]

performAdmission(m, p) ==
    IF VersionThrows(m, p)
    THEN AdmissionThrew
    ELSE IF VersionRejected(m, p)
    THEN [t |-> "admission", admitted |-> FALSE, rejectionReasons |-> <<"version">>]
    ELSE [t |-> "admission", admitted |-> TRUE,
          granted |-> [ capabilities           |-> GrantedCaps(m, p),
                        maxActionsPerWindow    |-> GrantedRate(m, p),
                        computeBudgetMsPerTick |-> GrantedCompute(m, p),
                        observationBudget      |-> GrantedObs(m, p),
                        energyBudget           |-> GrantedEnergy(m, p),
                        inQuarantine           |-> InQuarantine(m, p),
                        shardId                |-> ShardId(m, p) ]]


(***************************************************************************)
(* Registration flow: a manifest is submitted, validated, and, when valid, *)
(* admitted against the policy (loadManifest hands out a manifest only     *)
(* when validation.valid).                                                 *)
(***************************************************************************)
MaxCaps == 2

ReqCapPool == {"MOVE", "PROPOSE_PACT"}
ReqCapLists == UNION {[1..k -> ReqCapPool] : k \in 0..MaxCaps}

ReqRates ==
    {Undefined} \cup {RateLimit(w, m) : w \in {Undefined, Num(300)}, m \in {Undefined, Num(3)}}
ReqComputes == {Undefined, Num(50), Num(0)}
ReqObs ==
    {Undefined} \cup {ObsBudget(c, Num(12), n) : c \in {Undefined, Num(25)}, n \in {Undefined, Num(5)}}
ReqEnergies == {Undefined, EnergyBudget(Undefined, Num(200)), EnergyBudget(Num(50), Num(200))}
ReqCompat == {Undefined, [t |-> "object", minHabitatVersion |-> Ver(<<0, 11, 0>>)]}

OpenPolicy ==
    [ maxCapabilities      |-> <<"MOVE", "SENSE", "GENERATE_TRACE", "PROPOSE_PACT", "INQUIRY">>,
      maxActionRate        |-> [windowTicks |-> 100, max |-> 20],
      maxComputeBudgetMs   |-> 100,
      minObservationNoise  |-> 0,
      maxObservationCells  |-> 25,
      maxEnergyPerTick     |-> 100,
      quarantineThirdParty |-> FALSE,
      habitatVersion       |-> Ver(<<1, 0, 0>>) ]

OldPolicy ==
    [ maxCapabilities      |-> <<"SENSE">>,
      maxActionRate        |-> [windowTicks |-> 400, max |-> 1],
      maxComputeBudgetMs   |-> 1,
      minObservationNoise  |-> 50,
      maxObservationCells  |-> 1,
      maxEnergyPerTick     |-> 1,
      quarantineThirdParty |-> TRUE,
      habitatVersion       |-> Ver(<<0, 11, 9>>) ]

Policies == {DEFAULT_WORLD_POLICY, OpenPolicy, OldPolicy}

ThirdPartyAgent ==
    [t |-> "object", name |-> Name(<<"alpha", "dash", "digit">>),
     kind |-> Str("PROCESS"), entry |-> Str("node dist/index.js")]

Manifest(caps, rate, compute, obs, en, compat) ==
    [ t |-> "object",
      manifestVersion |-> Str("1.0"),
      agent |-> ThirdPartyAgent,
      requested |-> [ t |-> "object",
                      capabilities           |-> Arr(caps),
                      maxActionsPerWindow    |-> rate,
                      computeBudgetMsPerTick |-> compute,
                      observationBudget      |-> obs,
                      energyBudget           |-> en ],
      compat |-> compat,
      quarantine |-> Undefined ]

Manifests ==
    { Manifest(caps, rate, compute, obs, en, compat) :
        caps \in ReqCapLists, rate \in ReqRates, compute \in ReqComputes,
        obs \in ReqObs, en \in ReqEnergies, compat \in ReqCompat }

IdleAdmission ==
    /\ manifest = NoValue /\ policy = NoValue /\ validation = NoValue
    /\ admission = NoValue /\ apc = "idle"
    /\ jsonString = NoValue /\ loaded = NoValue
IdleSandbox ==
    /\ ctx = NoValue /\ energy = 0 /\ tick = 0 /\ last = NoValue
    /\ calls = 0 /\ hist = <<>> /\ limitedAt = -1
IdleStep ==
    /\ step = NoValue /\ spc = "idle" /\ clock = 0 /\ timerFired = FALSE
    /\ stepResult = NoValue
IdleNet ==
    /\ probe = NoValue /\ wire = <<>> /\ http = NoValue /\ runner = NoValue

InitAdmission ==
    /\ manifest \in Manifests
    /\ policy \in Policies
    /\ validation = NoValue
    /\ admission = NoValue
    /\ apc = "submitted"
    /\ jsonString = NoValue /\ loaded = NoValue
    /\ IdleSandbox /\ IdleStep /\ IdleNet

Validate ==
    /\ apc = "submitted"
    /\ validation' = validateManifest(manifest)
    /\ apc' = "validated"
    /\ UNCHANGED <<manifest, policy, admission, jsonString, loaded>>
    /\ UNCHANGED sbxVars /\ UNCHANGED stepVars /\ UNCHANGED netVars

Admit ==
    /\ apc = "validated"
    /\ validation.valid
    /\ admission' = performAdmission(manifest, policy)
    /\ apc' = "decided"
    /\ UNCHANGED <<manifest, policy, validation, jsonString, loaded>>
    /\ UNCHANGED sbxVars /\ UNCHANGED stepVars /\ UNCHANGED netVars

NextAdmission == Validate \/ Admit

SpecAdmission == InitAdmission /\ [][NextAdmission]_vars

Admitted == apc = "decided" /\ admission.t = "admission" /\ admission.admitted
Granted == admission.granted

\* C1: every capability of an admitted grant appears both in the manifest's
\* requested capabilities and in the policy's maxCapabilities.
GrantMonotonicity ==
    Admitted =>
        \A i \in 1..Len(Granted.capabilities) :
            /\ Includes(manifest.requested.capabilities.items, Granted.capabilities[i])
            /\ Includes(policy.maxCapabilities, Granted.capabilities[i])

\* an admission that grants one requested capability and drops another
GrantDropsCapability ==
    /\ Admitted
    /\ Len(Granted.capabilities) >= 1
    /\ Len(Granted.capabilities) < Len(manifest.requested.capabilities.items)

\* C2: in every admitted grant each resolved numeric budget is within the
\* policy's ceiling (and the noise floor at or above the policy's minimum),
\* also when an optional budget block is present but omits sub-fields.
BudgetNonEscalation ==
    Admitted =>
        /\ Lte(Granted.computeBudgetMsPerTick, Num(policy.maxComputeBudgetMs))
        /\ Lte(Granted.maxActionsPerWindow.max, Num(policy.maxActionRate.max))
        /\ Lte(Granted.observationBudget.maxCells, Num(policy.maxObservationCells))
        /\ Lte(Granted.energyBudget.maxPerTick, Num(policy.maxEnergyPerTick))
        /\ Gte(Granted.observationBudget.noiseFloor, Num(policy.minObservationNoise))

\* what the manifest asks for, a block it does not give read as the
\* documented default
AskedRate ==
    IF manifest.requested.maxActionsPerWindow = Undefined
    THEN RateLimit(Num(200), Num(10)) ELSE manifest.requested.maxActionsPerWindow
AskedCompute ==
    IF manifest.requested.computeBudgetMsPerTick = Undefined
    THEN Num(10) ELSE manifest.requested.computeBudgetMsPerTick
AskedObs ==
    IF manifest.requested.observationBudget = Undefined
    THEN ObsBudget(Num(9), Num(12), Num(20)) ELSE manifest.requested.observationBudget
AskedEnergy ==
    IF manifest.requested.energyBudget = Undefined
    THEN EnergyBudget(Num(20), Num(200)) ELSE manifest.requested.energyBudget

\* C17: the granted window is the longer of the requested and the policy's
\* window and the granted cap the smaller of the two caps, the request read
\* as {windowTicks: 200, max: 10} when the manifest gives no rate limit.
RateResolution ==
    Admitted =>
        /\ IsNum(AskedRate.windowTicks) =>
               Granted.maxActionsPerWindow.windowTicks =
                   Num(Max2(AskedRate.windowTicks.v, policy.maxActionRate.windowTicks))
        /\ IsNum(AskedRate.max) =>
               Granted.maxActionsPerWindow.max =
                   Num(Min2(AskedRate.max.v, policy.maxActionRate.max))

\* a requested window longer than the policy's is kept
RequestedWindowKept ==
    /\ Admitted
    /\ IsNum(AskedRate.windowTicks)
    /\ AskedRate.windowTicks.v > policy.maxActionRate.windowTicks
    /\ Granted.maxActionsPerWindow.windowTicks = AskedRate.windowTicks

\* C18: compute budget, energy per tick and observation cells are the
\* smaller of request and policy, the noise floor the larger, and maxFields
\* and maxReserve are the requested values.
BudgetResolution ==
    Admitted =>
        /\ IsNum(AskedCompute) =>
               Granted.computeBudgetMsPerTick =
                   Num(Min2(AskedCompute.v, policy.maxComputeBudgetMs))
        /\ IsNum(AskedEnergy.maxPerTick) =>
               Granted.energyBudget.maxPerTick =
                   Num(Min2(AskedEnergy.maxPerTick.v, policy.maxEnergyPerTick))
        /\ IsNum(AskedObs.maxCells) =>
               Granted.observationBudget.maxCells =
                   Num(Min2(AskedObs.maxCells.v, policy.maxObservationCells))
        /\ IsNum(AskedObs.noiseFloor) =>
               Granted.observationBudget.noiseFloor =
                   Num(Max2(AskedObs.noiseFloor.v, policy.minObservationNoise))
        /\ Granted.observationBudget.maxFields = AskedObs.maxFields
        /\ Granted.energyBudget.maxReserve = AskedEnergy.maxReserve

\* 25 cells at noise 0.05 asked under the default policy: 9 cells at 0.2
ObservationScenario ==
    /\ Admitted
    /\ policy = DEFAULT_WORLD_POLICY
    /\ manifest.requested.observationBudget = ObsBudget(Num(25), Num(12), Num(5))
    /\ Granted.observationBudget.maxCells = Num(9)
    /\ Granted.observationBudget.noiseFloor = Num(20)

(***************************************************************************)
(* The same flow for manifests that differ in the parts the validator does *)
(* not look at (compat, quarantine) and in the agent kind, against         *)
(* policies that differ in habitat version and quarantine rule.            *)
(***************************************************************************)
GateVersions ==
    {Ver(<<0, 9, 5>>), Ver(<<0, 12, 0>>), Ver(<<0, 12, 1>>), Ver(<<1, 0, 0>>), Ver(<<0, 12>>)}

\* compat absent, null, without a minimum, with a version string, with a number
GateCompat ==
    {Undefined, Null}
    \cup {[t |-> "object", minHabitatVersion |-> v] : v \in GateVersions \cup {Undefined, Num(12)}}

GateQuarantine ==
    {Undefined, Null}
    \cup {[t |-> "object", required |-> r, shardId |-> Str("shard-7")] :
             r \in {Undefined, Bool(TRUE), Bool(FALSE)}}

GateManifests ==
    { [Manifest(caps, Undefined, Undefined, Undefined, Undefined, compat)
          EXCEPT !.agent.kind = Str(kind), !.quarantine = q] :
        caps \in {<<"MOVE">>, <<"PROPOSE_PACT">>}, kind \in AgentKind,
        compat \in GateCompat, q \in GateQuarantine }

GatePolicies ==
    { [DEFAULT_WORLD_POLICY EXCEPT !.habitatVersion = v, !.quarantineThirdParty = q] :
        v \in GateVersions, q \in BOOLEAN }

InitGate ==
    /\ manifest \in GateManifests
    /\ policy \in GatePolicies
    /\ validation = NoValue
    /\ admission = NoValue
    /\ apc = "submitted"
    /\ jsonString = NoValue /\ loaded = NoValue
    /\ IdleSandbox /\ IdleStep /\ IdleNet

SpecGate == InitGate /\ [][NextAdmission]_vars

\* a lower than b as three-part numeric versions
VersionLower(a, b) ==
    /\ a.t = "string" /\ Len(a.parts) = 3
    /\ b.t = "string" /\ Len(b.parts) = 3
    /\ \E i \in 1..3 : a.parts[i] < b.parts[i] /\ \A j \in 1..(i - 1) : a.parts[j] = b.parts[j]

\* the manifest's minimum habitat version, 0.12.0 when it gives none
EffectiveMinVersion ==
    IF manifest.compat.t = "object" /\ ~IsNullish(manifest.compat.minHabitatVersion)
    THEN manifest.compat.minHabitatVersion
    ELSE Ver(<<0, 12, 0>>)

\* C15: performAdmission returns admitted = false, with a reason and no
\* grant, exactly when the policy's habitat version is lower than the
\* manifest's minimum version; in every other case it returns admitted =
\* true with a grant.
VersionGate ==
    apc = "decided" =>
        IF VersionLower(policy.habitatVersion, EffectiveMinVersion)
        THEN /\ admission.t = "admission" /\ ~admission.admitted
             /\ Len(admission.rejectionReasons) >= 1
             /\ "granted" \notin DOMAIN admission
        ELSE /\ admission.t = "admission" /\ admission.admitted
             /\ "granted" \in DOMAIN admission

\* manifest.quarantine.required is true
QuarantineRequired ==
    manifest.quarantine.t = "object" /\ manifest.quarantine.required = Bool(TRUE)

\* C16: a BUILTIN agent is never in quarantine; any other agent is in
\* quarantine exactly when the policy quarantines third parties or the
\* manifest requires quarantine.
QuarantineCorrect ==
    Admitted =>
        IF manifest.agent.kind = Str("BUILTIN")
        THEN Granted.inQuarantine = FALSE
        ELSE Granted.inQuarantine = (policy.quarantineThirdParty \/ QuarantineRequired)

\* a BUILTIN agent that asks for quarantine under a quarantining policy
BuiltinStaysOut ==
    /\ Admitted
    /\ manifest.agent.kind = Str("BUILTIN")
    /\ policy.quarantineThirdParty /\ QuarantineRequired
    /\ ~Granted.inQuarantine

(***************************************************************************)
(* Untrusted input: validateManifest is given any value, loadManifest any  *)
(* text.                                                                   *)
(***************************************************************************)
BadAgents ==
    { Undefined, Null, Str("agent"),
      [ThirdPartyAgent EXCEPT !.name = Num(7)],
      [ThirdPartyAgent EXCEPT !.kind = Null],
      [ThirdPartyAgent EXCEPT !.entry = Undefined] }

BadCapabilities == {Arr(<<"MOVE">>), Arr(<<>>), Arr(<<"FLY">>), Undefined, Str("MOVE")}
BadComputes == {Undefined, Null, Str("5"), Num(50)}
BadObs ==
    {Undefined, Null, Str("all"), Num(3)}
    \cup {ObsBudget(Num(9), Num(12), n) : n \in {Undefined, Null, Str("low"), Num(5), Num(150)}}

BadRequested ==
    {Undefined, Null}
    \cup { [ t |-> "object", capabilities |-> caps, maxActionsPerWindow |-> Undefined,
            computeBudgetMsPerTick |-> compute, observationBudget |-> obs,
            energyBudget |-> Undefined ] :
            caps \in BadCapabilities, compute \in BadComputes, obs \in BadObs }

\* JSON values: non-objects, arrays, and objects with missing, null or
\* wrongly typed fields
JsonValues ==
    {Null, Num(42), Str("manifest"), Arr(<<>>)}
    \cup { [ t |-> "object", manifestVersion |-> mv, agent |-> agent, requested |-> req,
            compat |-> Undefined, quarantine |-> Undefined ] :
            mv \in {Str("1.0"), Num(1), Undefined},
            agent \in BadAgents \cup {ThirdPartyAgent},
            req \in BadRequested }

InputValues == JsonValues \cup {Undefined}

InitValidate ==
    /\ manifest \in InputValues
    /\ policy = NoValue
    /\ validation = NoValue
    /\ admission = NoValue
    /\ apc = "submitted"
    /\ jsonString = NoValue /\ loaded = NoValue
    /\ IdleSandbox /\ IdleStep /\ IdleNet

NextValidate == Validate

SpecValidate == InitValidate /\ [][NextValidate]_vars

\* C19: validateManifest never throws: whatever the input value, it
\* returns a {valid, errors} result.
ValidateNeverThrows ==
    apc = "validated" => ~validation.threw

InitLoad ==
    /\ jsonString \in {NotJson} \cup {JsonText(v) : v \in JsonValues}
    /\ loaded = NoValue
    /\ manifest = NoValue /\ policy = NoValue /\ validation = NoValue
    /\ admission = NoValue
    /\ apc = "submitted"
    /\ IdleSandbox /\ IdleStep /\ IdleNet

\* the host loads the text
Load ==
    /\ apc = "submitted"
    /\ jsonString # NoValue
    /\ loaded' = loadManifest(jsonString)
    /\ apc' = "loaded"
    /\ UNCHANGED <<manifest, policy, validation, admission, jsonString>>
    /\ UNCHANGED sbxVars /\ UNCHANGED stepVars /\ UNCHANGED netVars

NextLoad == Load

SpecLoad == InitLoad /\ [][NextLoad]_vars

\* C20: for every text loadManifest returns a value whose validation is a
\* ValidationResult, never throws, and returns a manifest exactly when
\* validation.valid.
LoadSingleFailurePath ==
    apc = "loaded" =>
        /\ loaded.t = "returned"
        /\ loaded.validation.t = "result" /\ ~loaded.validation.threw
        /\ (loaded.manifest # Undefined) = loaded.validation.valid

(***************************************************************************)
(* src/sandbox/executor.ts: sandbox context, sliding window and the action *)
(* processor.  A grant held by a context is a GrantedCapabilities value    *)
(* with numeric budgets.                                                   *)
(***************************************************************************)
createSandboxContext(agentId, granted, currentTick) ==
    [ granted       |-> granted,
      agentId       |-> agentId,
      shardId       |-> granted.shardId,
      actionWindow  |-> [actions |-> <<>>, windowStart |-> currentTick],
      computeUsedMs |-> 0 ]

\* the filter off by one: an entry at windowStart itself is dropped
MutUpdateWindowStrict(window, currentTick, windowTicks, newActions) ==
    LET windowStart == Max2(0, currentTick - windowTicks)
        inside(a)   == a.tick > windowStart
        added       == [i \in 1..Len(newActions) |->
                           [tick |-> currentTick, type |-> newActions[i].type]]
    IN  [ actions     |-> SelectSeq(window.actions, inside) \o added,
          windowStart |-> windowStart ]

updateActionWindow(window, currentTick, windowTicks, newActions) ==
    LET windowStart == Max2(0, currentTick - windowTicks)
        inside(a)   == a.tick >= windowStart
        added       == [i \in 1..Len(newActions) |->
                           [tick |-> currentTick, type |-> newActions[i].type]]
    IN  [ actions     |-> SelectSeq(window.actions, inside) \o added,
          windowStart |-> windowStart ]

\* the comparison off by one: > where the source has >=
MutWouldExceedOffByOne(window, granted) ==
    Len(window.actions) > granted.maxActionsPerWindow.max

wouldExceedRateLimit(window, granted) ==
    Len(window.actions) >= granted.maxActionsPerWindow.max

\* a validateAction that lets params switch the rate limit off
MutValidateActionReadsParams(action, context) ==
    IF ~Includes(context.granted.capabilities, action.type)
    THEN "CAPABILITY_NOT_GRANTED"
    ELSE IF "_bypassRateLimit" \notin action.params
            /\ Len(context.actionWindow.actions) >= context.granted.maxActionsPerWindow.max
    THEN "RATE_LIMIT_EXCEEDED"
    ELSE "none"

\* the two checks of validateAction in the other order
MutValidateActionRateFirst(action, context) ==
    IF wouldExceedRateLimit(context.actionWindow, context.granted)
    THEN "RATE_LIMIT_EXCEEDED"
    ELSE IF ~Includes(context.granted.capabilities, action.type)
    THEN "CAPABILITY_NOT_GRANTED"
    ELSE "none"

\* the rejection code, or "none" for null
validateAction(action, context) ==
    IF ~Includes(context.granted.capabilities, action.type)
    THEN "CAPABILITY_NOT_GRANTED"
    ELSE IF wouldExceedRateLimit(context.actionWindow, context.granted)
    THEN "RATE_LIMIT_EXCEEDED"
    ELSE "none"

Rejected(code)  == [executed |-> FALSE, energyCost |-> 0, rejection |-> code]
Executed(cost)  == [executed |-> TRUE, energyCost |-> cost, rejection |-> "none"]

\* the energy check off by one: cost >= remainingEnergy rejects
MutAffordableStrict(cost, remainingEnergy) == ~(cost >= remainingEnergy)

\* no energy check at all
MutAffordableAlways(cost, remainingEnergy) == TRUE

\* enough energy for the action: the negation of cost > remainingEnergy
Affordable(cost, remainingEnergy) == ~(cost > remainingEnergy)

\* every action of the batch validated against the window the call started with
MutProcessOneStaleWindow(action, context, getCost, acc) ==
    LET rejection == validateAction(action, context)
        cost      == getCost[action.type]
    IN  IF rejection # "none"
        THEN [acc EXCEPT !.results = Append(@, Rejected(rejection))]
        ELSE IF ~Affordable(cost, acc.remainingEnergy)
        THEN [acc EXCEPT !.results = Append(@, Rejected("INSUFFICIENT_ENERGY")),
                         !.priced = Append(@, action)]
        ELSE [ results         |-> Append(acc.results, Executed(cost)),
               priced          |-> Append(acc.priced, action),
               totalCost       |-> acc.totalCost + cost,
               remainingEnergy |-> acc.remainingEnergy - cost,
               updatedWindow   |-> updateActionWindow(
                                       acc.updatedWindow,
                                       context.actionWindow.windowStart,
                                       context.granted.maxActionsPerWindow.windowTicks,
                                       <<action>>) ]

\* the running energy never deducted: every action compared with the starting energy
MutProcessOneNoDeduct(action, context, getCost, acc) ==
    LET rejection == validateAction(action, [context EXCEPT !.actionWindow = acc.updatedWindow])
        cost      == getCost[action.type]
    IN  IF rejection # "none"
        THEN [acc EXCEPT !.results = Append(@, Rejected(rejection))]
        ELSE IF ~Affordable(cost, acc.remainingEnergy)
        THEN [acc EXCEPT !.results = Append(@, Rejected("INSUFFICIENT_ENERGY")),
                         !.priced = Append(@, action)]
        ELSE [ results         |-> Append(acc.results, Executed(cost)),
               priced          |-> Append(acc.priced, action),
               totalCost       |-> acc.totalCost + cost,
               remainingEnergy |-> acc.remainingEnergy,
               updatedWindow   |-> updateActionWindow(
                                       acc.updatedWindow,
                                       context.actionWindow.windowStart,
                                       context.granted.maxActionsPerWindow.windowTicks,
                                       <<action>>) ]

\* one iteration of the for loop of processActions on the loop's variables
ProcessOne(action, context, getCost, acc) ==
    LET rejection == validateAction(action, [context EXCEPT !.actionWindow = acc.updatedWindow])
        cost      == getCost[action.type]
    IN  IF rejection # "none"
        THEN [acc EXCEPT !.results = Append(@, Rejected(rejection))]
        ELSE IF ~Affordable(cost, acc.remainingEnergy)
        THEN [acc EXCEPT !.results = Append(@, Rejected("INSUFFICIENT_ENERGY")),
                         !.priced = Append(@, action)]
        ELSE [ results         |-> Append(acc.results, Executed(cost)),
               priced          |-> Append(acc.priced, action),
               totalCost       |-> acc.totalCost + cost,
               remainingEnergy |-> acc.remainingEnergy - cost,
               updatedWindow   |-> updateActionWindow(
                                       acc.updatedWindow,
                                       context.actionWindow.windowStart,
                                       context.granted.maxActionsPerWindow.windowTicks,
                                       <<action>>) ]

\* a loop that stops at the first rejected action (break for continue)
RECURSIVE MutProcessLoopAbort(_, _, _, _, _)
MutProcessLoopAbort(actions, i, context, getCost, acc) ==
    IF i > Len(actions) THEN acc
    ELSE LET next == ProcessOne(actions[i], context, getCost, acc)
         IN  IF ~next.results[Len(next.results)].executed THEN next
             ELSE MutProcessLoopAbort(actions, i + 1, context, getCost, next)

RECURSIVE ProcessLoop(_, _, _, _, _)
ProcessLoop(actions, i, context, getCost, acc) ==
    IF i > Len(actions) THEN acc
    ELSE ProcessLoop(actions, i + 1, context, getCost,
                     ProcessOne(actions[i], context, getCost, acc))

\* the loop's variables before the first action; priced lists the actions
\* getCost has been called with
LoopStart(context, currentEnergy) ==
    [ results         |-> <<>>,
      priced          |-> <<>>,
      totalCost       |-> 0,
      remainingEnergy |-> currentEnergy,
      updatedWindow   |-> context.actionWindow ]

\* the actions a processActions call passes to getCost, in order
GetCostCalls(actions, context, currentEnergy, getCost) ==
    ProcessLoop(actions, 1, context, getCost, LoopStart(context, currentEnergy)).priced

processActions(actions, context, currentEnergy, getCost) ==
    LET final == ProcessLoop(actions, 1, context, getCost,
                             LoopStart(context, currentEnergy))
    IN  [ results       |-> final.results,
          totalCost     |-> final.totalCost,
          updatedWindow |-> final.updatedWindow ]

(***************************************************************************)
(* The host's use of the action processor: a context is created from a     *)
(* grant; on a tick the host passes the agent's requested actions, the     *)
(* agent's energy and the price function to processActions, deducts        *)
(* totalCost and keeps updatedWindow in the context for the next call.     *)
(***************************************************************************)
MaxBatch  == 3
MaxEnergy == 5
MaxRate   == 3
MaxCost   == 2
MaxTick   == 6

ActionTypes == {"MOVE", "SENSE", "GENERATE_TRACE"}
AdversarialParams == {"_escalate", "_bypassRateLimit", "_refundEnergy"}

Plain(type) == [type |-> type, params |-> {}]
\* the same requests with adversarial keys injected into params
Inject(actions) ==
    [i \in 1..Len(actions) |-> [actions[i] EXCEPT !.params = AdversarialParams]]

Batches == UNION {[1..n -> {Plain(ty) : ty \in ActionTypes}] : n \in 0..MaxBatch}
MoveBatches == UNION {[1..n -> {Plain("MOVE")}] : n \in 1..MaxBatch}

\* the price function of the tests, and fixed prices
TestCost ==
    [ty \in AgentCapability |->
        CASE ty = "MOVE" -> 2
          [] ty = "SENSE" -> 1
          [] ty = "GENERATE_TRACE" -> 5
          [] OTHER -> 10]
FixedCost(c) == [ty \in AgentCapability |-> c]
CostFns == {TestCost} \cup {FixedCost(c) : c \in 0..MaxCost}

SandboxGrant(max, windowTicks) ==
    [ capabilities           |-> <<"MOVE", "SENSE">>,
      maxActionsPerWindow    |-> [windowTicks |-> windowTicks, max |-> max],
      computeBudgetMsPerTick |-> 10,
      observationBudget      |-> [maxCells |-> 9, maxFields |-> 12, noiseFloor |-> 20],
      energyBudget           |-> [maxPerTick |-> 20, maxReserve |-> 200],
      inQuarantine           |-> FALSE,
      shardId                |-> Undefined ]

WindowLengths == {1, 2}
StartTicks == {0, 3}

RejectedWith(results, code) ==
    \E i \in 1..Len(results) : results[i].rejection = code

ExecutedCount(results) ==
    LET ex(r) == r.executed IN Len(SelectSeq(results, ex))

LastOf(seq, default) == IF Len(seq) = 0 THEN default ELSE seq[Len(seq)]

\* the host runs one tick of the agent: processActions on the requested
\* actions, then the ledger and the context take totalCost and updatedWindow
ProcessTick(batches, costFns) ==
    \E actions \in batches, getCost \in costFns :
        LET r == processActions(actions, ctx, energy, getCost)
        IN  /\ last' = [ t             |-> "call",
                         actions       |-> actions,
                         context       |-> ctx,
                         currentEnergy |-> energy,
                         getCost       |-> getCost,
                         tick          |-> tick,
                         results       |-> r.results,
                         totalCost     |-> r.totalCost,
                         updatedWindow |-> r.updatedWindow,
                         priced        |-> GetCostCalls(actions, ctx, energy, getCost),
                         injected      |-> processActions(Inject(actions), ctx, energy, getCost),
                         limitedAt     |-> limitedAt,
                         lastExecuted  |-> LastOf(hist, -1) ]
            /\ ctx' = [ctx EXCEPT !.actionWindow = r.updatedWindow]
            /\ energy' = energy - r.totalCost
            /\ hist' = hist \o [i \in 1..ExecutedCount(r.results) |-> tick]
            /\ limitedAt' = IF RejectedWith(r.results, "RATE_LIMIT_EXCEEDED")
                            THEN tick ELSE limitedAt
            /\ calls' = calls + 1
            /\ tick' = tick + 1

InitSandbox ==
    /\ \E max \in 1..MaxRate, w \in WindowLengths, t0 \in StartTicks :
          /\ ctx = createSandboxContext("agent:1", SandboxGrant(max, w), t0)
          /\ tick = t0
    /\ energy \in 0..MaxEnergy
    /\ last = NoValue
    /\ calls = 0
    /\ hist = <<>>
    /\ limitedAt = -1
    /\ IdleAdmission /\ IdleStep /\ IdleNet

\* a context whose window already records some executed actions of the
\* current tick (none, or up to the granted limit)
InitBatch ==
    /\ \E max \in 1..MaxRate, t0 \in StartTicks, prior \in {<<>>} \cup MoveBatches :
          LET fresh == createSandboxContext("agent:1", SandboxGrant(max, 2), t0)
          IN  /\ Len(prior) <= max
              /\ ctx = [fresh EXCEPT !.actionWindow =
                           updateActionWindow(@, t0, 2, prior)]
              /\ hist = [i \in 1..Len(prior) |-> t0]
              /\ tick = t0
    /\ energy \in 0..MaxEnergy
    /\ last = NoValue
    /\ calls = 0
    /\ limitedAt = -1
    /\ IdleAdmission /\ IdleStep /\ IdleNet

\* one call of processActions on a batch of any shape
ProcessBatch ==
    /\ calls = 0
    /\ ProcessTick(Batches, CostFns)
    /\ UNCHANGED admVars /\ UNCHANGED stepVars /\ UNCHANGED netVars

NextBatch == ProcessBatch

SpecBatch == InitBatch /\ [][NextBatch]_vars

\* a run of ticks: on each the agent requests some MOVE actions or nothing
RequestTick ==
    /\ tick < MaxTick
    /\ ProcessTick(MoveBatches, {FixedCost(1)})
    /\ UNCHANGED admVars /\ UNCHANGED stepVars /\ UNCHANGED netVars

IdleTick ==
    /\ tick < MaxTick
    /\ tick' = tick + 1
    /\ UNCHANGED <<ctx, energy, last, calls, hist, limitedAt>>
    /\ UNCHANGED admVars /\ UNCHANGED stepVars /\ UNCHANGED netVars

NextTicks == RequestTick \/ IdleTick

SpecTicks == InitSandbox /\ [][NextTicks]_vars

(***************************************************************************)
(* Properties of one processActions call, read off the recorded call       *)
(***************************************************************************)
Called == last.t = "call"
LastGrant == last.context.granted
LastLimit == LastGrant.maxActionsPerWindow

CapabilityGranted(i) == Includes(LastGrant.capabilities, last.actions[i].type)
PriceOf(i) == last.getCost[last.actions[i].type]

RECURSIVE SumEnergyCost(_, _)
SumEnergyCost(results, n) ==
    IF n = 0 THEN 0 ELSE SumEnergyCost(results, n - 1) + results[n].energyCost

\* entries the window holds when action i is reached: those the call started
\* with and one for each action of the batch executed before i
WindowCountBefore(i) ==
    Len(last.context.actionWindow.actions) + ExecutedCount(SubSeq(last.results, 1, i - 1))

\* energy left when action i is reached
RemainingBefore(i) == last.currentEnergy - SumEnergyCost(last.results, i - 1)

\* C3: an action reached while the window holds at least max entries (the
\* entries of earlier executed actions of the batch included) is never
\* executed; with a granted capability it is rejected RATE_LIMIT_EXCEEDED.
RateLimitEnforced ==
    Called =>
        \A i \in 1..Len(last.actions) :
            WindowCountBefore(i) >= LastLimit.max =>
                /\ ~last.results[i].executed
                /\ CapabilityGranted(i) => last.results[i].rejection = "RATE_LIMIT_EXCEEDED"

\* limit max = 2 with one action already recorded: the first action of the
\* batch is executed and fills the window, the second is rejected
RateLimitHit ==
    /\ Called
    /\ LastLimit.max = 2
    /\ Len(last.context.actionWindow.actions) = 1
    /\ Len(last.actions) >= 2
    /\ last.results[1].executed
    /\ last.results[2].rejection = "RATE_LIMIT_EXCEEDED"

\* C6: an action that passes the capability and rate checks is rejected
\* INSUFFICIENT_ENERGY exactly when its cost exceeds the running remaining
\* energy, and executed otherwise.
EnergyCheckRunning ==
    Called =>
        \A i \in 1..Len(last.actions) :
            last.results[i].rejection \notin {"CAPABILITY_NOT_GRANTED", "RATE_LIMIT_EXCEEDED"} =>
                /\ (last.results[i].rejection = "INSUFFICIENT_ENERGY") <=> (PriceOf(i) > RemainingBefore(i))
                /\ last.results[i].executed <=> ~(PriceOf(i) > RemainingBefore(i))
                /\ last.results[i].executed => last.results[i].energyCost = PriceOf(i)

\* three MOVE actions of cost 2 with starting energy 5
ThreeMovesEnergyFive ==
    /\ Called
    /\ last.actions = <<Plain("MOVE"), Plain("MOVE"), Plain("MOVE")>>
    /\ last.getCost = TestCost
    /\ last.currentEnergy = 5
    /\ last.results = <<Executed(2), Executed(2), Rejected("INSUFFICIENT_ENERGY")>>
    /\ last.totalCost = 4

\* a batch of actions with granted capabilities and one positive price
UniformBatch ==
    /\ Called
    /\ Len(last.actions) >= 1
    /\ \A i \in 1..Len(last.actions) :
          CapabilityGranted(i) /\ PriceOf(i) = PriceOf(1) /\ PriceOf(i) > 0

RateCapacity == Max2(0, LastLimit.max - Len(last.context.actionWindow.actions))

\* C7: N granted actions of one positive cost C with starting energy E:
\* min(N, floor(E / C), remaining rate capacity) are executed and
\* totalCost is that number times C.
EnergyDepletion ==
    UniformBatch =>
        /\ ExecutedCount(last.results) =
              Min2(Len(last.actions), Min2(last.currentEnergy \div PriceOf(1), RateCapacity))
        /\ last.totalCost = ExecutedCount(last.results) * PriceOf(1)

\* the energy runs out before the batch and before the rate limit
DepletedByEnergy ==
    /\ UniformBatch
    /\ ExecutedCount(last.results) >= 1
    /\ ExecutedCount(last.results) = last.currentEnergy \div PriceOf(1)
    /\ ExecutedCount(last.results) < Len(last.actions)
    /\ ExecutedCount(last.results) < RateCapacity

\* C8: the same requests with adversarial keys injected into their params
\* get the same executed flags, rejection codes, energy costs, totalCost
\* and window.
ParamImmunity ==
    Called =>
        /\ last.injected.results = last.results
        /\ last.injected.totalCost = last.totalCost
        /\ last.injected.updatedWindow = last.updatedWindow

\* a batch in which the injected keys could matter: an action is executed
\* and later ones are rejected by the rate limit and by the energy check
ParamsCouldMatter ==
    /\ Called
    /\ \E i \in 1..Len(last.results) : last.results[i].executed
    /\ RejectedWith(last.results, "RATE_LIMIT_EXCEEDED")
    /\ RejectedWith(last.results, "CAPABILITY_NOT_GRANTED")

RejectionCodes == {"CAPABILITY_NOT_GRANTED", "RATE_LIMIT_EXCEEDED", "INSUFFICIENT_ENERGY"}

\* C9: one result per requested action, in request order; each is executed
\* without rejection, or not executed with energyCost 0 and one of the three
\* rejection codes; an action after a rejected one is still judged on its
\* own capability.
OneResultPerAction ==
    Called =>
        /\ Len(last.results) = Len(last.actions)
        /\ \A i \in 1..Len(last.results) :
              /\ \/ last.results[i].executed /\ last.results[i].rejection = "none"
                 \/ /\ ~last.results[i].executed
                    /\ last.results[i].energyCost = 0
                    /\ last.results[i].rejection \in RejectionCodes
              /\ (last.results[i].rejection = "CAPABILITY_NOT_GRANTED") <=> ~CapabilityGranted(i)

\* a rejected action followed by an executed one
ExecutedAfterRejection ==
    /\ Called
    /\ Len(last.results) >= 2
    /\ ~last.results[1].executed
    /\ last.results[2].executed

(***************************************************************************)
(* Properties of a run of ticks                                            *)
(***************************************************************************)
\* C4: after a RATE_LIMIT_EXCEEDED rejection and more than windowTicks ticks
\* without an executed action, a requested action with a granted capability
\* and an affordable cost is executed.
WindowExpires ==
    ( /\ Called
      /\ last.limitedAt >= 0
      /\ last.lastExecuted <= last.limitedAt
      /\ last.tick - last.limitedAt > LastLimit.windowTicks
      /\ Len(last.actions) >= 1
      /\ CapabilityGranted(1)
      /\ PriceOf(1) <= last.currentEnergy )
    => last.results[1].executed

ExecutedIn(from, length) ==
    Cardinality({i \in 1..Len(hist) : hist[i] >= from /\ hist[i] < from + length})

\* C5: the actions executed at ticks within any windowTicks consecutive
\* ticks never number more than max.
RateBoundPerWindow ==
    \A from \in 0..MaxTick :
        ExecutedIn(from, ctx.granted.maxActionsPerWindow.windowTicks)
            <= ctx.granted.maxActionsPerWindow.max

\* the limit reached by actions of two different ticks of one window, and a
\* later request rejected
LimitReachedAcrossTicks ==
    /\ Len(hist) = ctx.granted.maxActionsPerWindow.max
    /\ Len(hist) >= 2
    /\ hist[1] < hist[Len(hist)]
    /\ hist[Len(hist)] - hist[1] < ctx.granted.maxActionsPerWindow.windowTicks
    /\ limitedAt > hist[Len(hist)]

(***************************************************************************)
(* src/sandbox/executor.ts: executeStep.  The step function is the agent's *)
(* code: its synchronous part runs for some milliseconds, during which no  *)
(* timer callback can run, and ends by returning a value, throwing a value *)
(* or returning a promise that settles later or never.                     *)
(***************************************************************************)
TimeoutBufferMs == 5
MaxClock == 9

Budgets == {1, 2}

\* what a step may return or resolve with
StepOutput(actions, computeTimeMs) ==
    [t |-> "object", actions |-> actions, computeTimeMs |-> computeTimeMs]
StepValues ==
    { StepOutput(a, c) : a \in {"array", "missing", "string"},
                         c \in {Num(1), Num(50), Undefined} }
    \cup {Null, Undefined, Num(0), Num(42)}

\* what a step may throw or reject with
Error(message) == [t |-> "error", message |-> Str(message)]
Thrown == {Error("Agent crashed"), Error("TIMEOUT"), Str("boom"), Null, Undefined}

\* !output
Falsy(v) ==
    \/ v.t \in {"null", "undefined", "NaN"}
    \/ v.t = "number" /\ v.v = 0
    \/ v.t = "string" /\ v.s = ""
    \/ v.t = "boolean" /\ ~v.b

\* !output || !Array.isArray(output.actions)
InvalidOutput(output) ==
    Falsy(output) \/ output.t # "object" \/ output.actions # "array"

ExecutionResult(output, code, message, actualComputeMs, exceeded) ==
    [ t                     |-> "fulfilled",
      output                |-> output,
      error                 |-> code,
      message               |-> message,
      actualComputeMs       |-> actualComputeMs,
      computeBudgetExceeded |-> exceeded ]

\* the executeStep promise rejected: an exception left the function
ExecutionRejected(reason) == [t |-> "rejected", reason |-> reason]

\* the rejected output kept in the result next to the error
MutAfterRaceKeepsOutput(output, actualComputeMs, budgetMs) ==
    ExecutionResult(output, IF InvalidOutput(output) THEN "INVALID_OUTPUT" ELSE "none",
                    Undefined, actualComputeMs, actualComputeMs > budgetMs)

\* the output trusted for enforcement: the budget flag follows computeTimeMs
MutAfterRaceTrustsReport(output, actualComputeMs, budgetMs) ==
    IF InvalidOutput(output)
    THEN ExecutionResult(Undefined, "INVALID_OUTPUT",
                         Str("Step must return { actions: ActionRequest[] }"),
                         actualComputeMs, actualComputeMs > budgetMs)
    ELSE ExecutionResult(output, "none", Undefined, actualComputeMs,
                         IF IsNum(output.computeTimeMs)
                         THEN output.computeTimeMs.v > budgetMs
                         ELSE actualComputeMs > budgetMs)

\* the statements after the await, on the value that won the race
AfterRace(output, actualComputeMs, budgetMs) ==
    IF InvalidOutput(output)
    THEN ExecutionResult(Undefined, "INVALID_OUTPUT",
                         Str("Step must return { actions: ActionRequest[] }"),
                         actualComputeMs, actualComputeMs > budgetMs)
    ELSE ExecutionResult(output, "none", Undefined,
                         actualComputeMs, actualComputeMs > budgetMs)

\* (error as Error).message: a TypeError when error is null or undefined
MessageOf(error) ==
    IF error.t = "error" THEN error.message ELSE Undefined

\* the catch block, on the value thrown or rejected with
CatchBlock(error, actualComputeMs, budgetMs) ==
    IF IsNullish(error)
    THEN ExecutionRejected("TypeError")
    ELSE IF MessageOf(error) = Str("TIMEOUT")
    THEN ExecutionResult(Undefined, "TIMEOUT", Str("Compute budget exceeded"),
                         actualComputeMs, TRUE)
    ELSE ExecutionResult(Undefined, "CRASH", MessageOf(error),
                         actualComputeMs, actualComputeMs > budgetMs)

InitStep ==
    /\ step \in {[budgetMs |-> b, promise |-> "notcalled", value |-> NoValue,
                   settledAt |-> -1, raced |-> FALSE, unhandled |-> FALSE] : b \in Budgets}
    /\ spc = "start"
    /\ clock = 0
    /\ timerFired = FALSE
    /\ stepResult = NoValue
    /\ IdleAdmission /\ IdleSandbox /\ IdleNet

\* stepFn returns a value that is no promise: the race is won in a microtask
StepReturns ==
    /\ spc = "start"
    /\ \E d \in 0..MaxClock, v \in StepValues :
          /\ clock' = d
          /\ step' = [step EXCEPT !.promise = "returned", !.value = v,
                                   !.settledAt = d]
          /\ stepResult' = AfterRace(v, d, step.budgetMs)
    /\ spc' = "done"
    /\ UNCHANGED timerFired
    /\ UNCHANGED admVars /\ UNCHANGED sbxVars /\ UNCHANGED netVars

\* stepFn throws synchronously
StepThrows ==
    /\ spc = "start"
    /\ \E d \in 0..MaxClock, x \in Thrown :
          /\ clock' = d
          /\ step' = [step EXCEPT !.promise = "threw", !.value = x,
                                   !.settledAt = d]
          /\ stepResult' = CatchBlock(x, d, step.budgetMs)
    /\ spc' = "done"
    /\ UNCHANGED timerFired
    /\ UNCHANGED admVars /\ UNCHANGED sbxVars /\ UNCHANGED netVars

\* stepFn returns a promise: executeStep awaits the race
StepReturnsPromise ==
    /\ spc = "start"
    /\ \E d \in 0..MaxClock : clock' = d
    /\ step' = [step EXCEPT !.promise = "pending", !.raced = TRUE]
    /\ spc' = "racing"
    /\ UNCHANGED <<timerFired, stepResult>>
    /\ UNCHANGED admVars /\ UNCHANGED sbxVars /\ UNCHANGED netVars

\* the timer is due, the event loop is free and its callback has not run
TimerOverdue ==
    spc = "racing" /\ ~timerFired /\ clock >= step.budgetMs + TimeoutBufferMs

\* a millisecond passes while something is outstanding; a due timer's
\* callback runs before more time passes
Tick ==
    /\ spc = "racing" \/ (spc = "done" /\ (step.promise = "pending" \/ ~timerFired))
    /\ ~TimerOverdue
    /\ clock < MaxClock
    /\ clock' = clock + 1
    /\ UNCHANGED <<step, spc, timerFired, stepResult>>
    /\ UNCHANGED admVars /\ UNCHANGED sbxVars /\ UNCHANGED netVars

\* the step's promise resolves before the timer's callback has run
PromiseResolves ==
    /\ spc = "racing"
    /\ \E v \in StepValues :
          /\ step' = [step EXCEPT !.promise = "fulfilled", !.value = v,
                                   !.settledAt = clock]
          /\ stepResult' = AfterRace(v, clock, step.budgetMs)
    /\ spc' = "done"
    /\ UNCHANGED <<clock, timerFired>>
    /\ UNCHANGED admVars /\ UNCHANGED sbxVars /\ UNCHANGED netVars

\* the step's promise rejects before the timer's callback has run
PromiseRejects ==
    /\ spc = "racing"
    /\ \E x \in Thrown :
          /\ step' = [step EXCEPT !.promise = "rejected", !.value = x,
                                   !.settledAt = clock]
          /\ stepResult' = CatchBlock(x, clock, step.budgetMs)
    /\ spc' = "done"
    /\ UNCHANGED <<clock, timerFired>>
    /\ UNCHANGED admVars /\ UNCHANGED sbxVars /\ UNCHANGED netVars

\* the setTimeout callback runs: reject(new Error('TIMEOUT'))
TimerFires ==
    /\ spc \in {"racing", "done"}
    /\ ~timerFired
    /\ clock >= step.budgetMs + TimeoutBufferMs
    /\ timerFired' = TRUE
    /\ IF spc = "racing"
       THEN /\ stepResult' = CatchBlock(Error("TIMEOUT"), clock, step.budgetMs)
            /\ spc' = "done"
       ELSE UNCHANGED <<stepResult, spc>>
    /\ UNCHANGED <<step, clock>>
    /\ UNCHANGED admVars /\ UNCHANGED sbxVars /\ UNCHANGED netVars

\* variant in which executeStep's result is replaced by what arrives late
MutLateSettleDelivers ==
    /\ spc = "done"
    /\ step.promise = "pending"
    /\ \/ \E v \in StepValues :
              /\ step' = [step EXCEPT !.promise = "fulfilled", !.value = v,
                                       !.settledAt = clock]
              /\ stepResult' = AfterRace(v, clock, step.budgetMs)
       \/ \E x \in Thrown :
              /\ step' = [step EXCEPT !.promise = "rejected", !.value = x,
                                       !.settledAt = clock, !.unhandled = TRUE]
              /\ stepResult' = stepResult
    /\ UNCHANGED <<spc, clock, timerFired>>
    /\ UNCHANGED admVars /\ UNCHANGED sbxVars /\ UNCHANGED netVars

\* the step's promise settles after executeStep has returned: the reactions
\* Promise.race attached to it run and find the race already settled; a
\* rejection is unhandled only if the promise was never passed to the race
LateSettle ==
    /\ spc = "done"
    /\ step.promise = "pending"
    /\ \/ \E v \in StepValues :
              step' = [step EXCEPT !.promise = "fulfilled", !.value = v,
                                   !.settledAt = clock]
       \/ \E x \in Thrown :
              step' = [step EXCEPT !.promise = "rejected", !.value = x,
                                   !.settledAt = clock, !.unhandled = ~step.raced]
    /\ UNCHANGED <<spc, clock, timerFired, stepResult>>
    /\ UNCHANGED admVars /\ UNCHANGED sbxVars /\ UNCHANGED netVars

NextStep ==
    \/ StepReturns \/ StepThrows \/ StepReturnsPromise
    \/ Tick \/ PromiseResolves \/ PromiseRejects \/ TimerFires \/ LateSettle

SpecStep == InitStep /\ [][NextStep]_vars

\* C10: whatever the step does, executeStep settles by returning a
\* SandboxExecutionResult: its promise is never rejected.
StepNeverRejects ==
    spc = "done" => stepResult.t = "fulfilled"

Returned == spc = "done" /\ stepResult.t = "fulfilled"
ErrorCodes == {"TIMEOUT", "CRASH", "INVALID_OUTPUT"}

\* C11: every result executeStep returns carries exactly one of output and
\* error, and the code of an error is TIMEOUT, CRASH or INVALID_OUTPUT.
OutputXorError ==
    Returned =>
        /\ (stepResult.output = Undefined) # (stepResult.error = "none")
        /\ stepResult.error \in ErrorCodes \cup {"none"}

\* the step returned an object without an actions array: the result carries
\* INVALID_OUTPUT and not the object
InvalidObjectDropped ==
    /\ Returned
    /\ step.promise = "returned" /\ step.value.t = "object"
    /\ stepResult.error = "INVALID_OUTPUT"
    /\ stepResult.output = Undefined

\* the step came to a value (returned it, or its promise resolved with it)
StepResolved == step.promise \in {"returned", "fulfilled"}

\* C12: a step that takes longer than the budget to resolve yields TIMEOUT
\* with computeBudgetExceeded and no output, and a step that resolves within
\* the budget yields neither TIMEOUT nor computeBudgetExceeded.
TimeoutDeterminism ==
    Returned /\ StepResolved =>
        /\ step.settledAt > step.budgetMs =>
               /\ stepResult.error = "TIMEOUT"
               /\ stepResult.computeBudgetExceeded
               /\ stepResult.output = Undefined
        /\ step.settledAt <= step.budgetMs =>
               /\ stepResult.error # "TIMEOUT"
               /\ ~stepResult.computeBudgetExceeded

\* C13: executeStep resolves within the budget plus the overhead allowance
\* of the timer, whatever the step does.
ResolvesWithinAllowance ==
    Returned => stepResult.actualComputeMs <= step.budgetMs + TimeoutBufferMs

(***************************************************************************)
(* The step and the host share the context object: executeStep passes the  *)
(* host's SandboxStepInput to stepFn by reference, and createSandboxContext *)
(* keeps the grant it was given by reference.  The step function is the    *)
(* agent's code, so it may assign to any field it can reach from its input. *)
(***************************************************************************)
\* the assignments a step can make through input.context
ContextWrites(c) ==
    { [c EXCEPT !.granted.capabilities = Append(@, "GENERATE_TRACE")],
      [c EXCEPT !.granted.maxActionsPerWindow.max = @ + MaxBatch],
      [c EXCEPT !.granted.computeBudgetMsPerTick = @ * 100],
      [c EXCEPT !.actionWindow.actions = <<>>] }

\* the host has a context with some executed actions on record and is about
\* to run the agent's step on it: budgetMs is read from the grant, and the
\* input holds the context as it is when the step is called
InitIsolation ==
    /\ \E max \in 1..MaxRate, prior \in {<<>>} \cup MoveBatches :
          LET fresh == createSandboxContext("agent:1", SandboxGrant(max, 2), 0)
          IN  /\ Len(prior) <= max
              /\ ctx = [fresh EXCEPT !.actionWindow = updateActionWindow(@, 0, 2, prior)]
              /\ hist = [i \in 1..Len(prior) |-> 0]
    /\ step = [ budgetMs  |-> ctx.granted.computeBudgetMsPerTick,
                promise   |-> "notcalled",
                value     |-> NoValue,
                settledAt |-> -1,
                input     |-> [context |-> ctx] ]
    /\ spc = "start"
    /\ clock = 0
    /\ timerFired = FALSE
    /\ stepResult = NoValue
    /\ energy = MaxEnergy
    /\ tick = 0
    /\ last = NoValue
    /\ calls = 0
    /\ limitedAt = -1
    /\ IdleAdmission /\ IdleNet

\* the running step function assigns to a field of its input's context
StepWritesContext ==
    /\ spc = "start"
    /\ ctx = step.input.context
    /\ ctx' \in ContextWrites(ctx)
    /\ UNCHANGED <<energy, tick, last, calls, hist, limitedAt>>
    /\ UNCHANGED admVars /\ UNCHANGED stepVars /\ UNCHANGED netVars

\* executeStep has returned an output: the host submits the output's actions
\* to processActions with the context
HostProcessesOutput ==
    /\ spc = "done"
    /\ stepResult.t = "fulfilled" /\ stepResult.error = "none"
    /\ calls = 0
    /\ ProcessTick(Batches, {TestCost})
    /\ UNCHANGED admVars /\ UNCHANGED stepVars /\ UNCHANGED netVars

NextIsolation == StepWritesContext \/ StepReturns \/ StepThrows \/ HostProcessesOutput

SpecIsolation == InitIsolation /\ [][NextIsolation]_vars

\* C14: the step cannot change what the host enforces: the processActions
\* call that follows executeStep sees the granted capabilities, rate limit,
\* compute budget and action window the context had before the step ran,
\* and decides as it would on that context.
HostUnaffectedByStep ==
    Called =>
        /\ last.context.granted = step.input.context.granted
        /\ last.context.actionWindow = step.input.context.actionWindow
        /\ last.results = processActions(last.actions, step.input.context,
                                         last.currentEnergy, last.getCost).results

(***************************************************************************)
(* What a processActions call leaves in the objects it was given.  The     *)
(* loop works on locals: validateAction gets a spread copy of the context, *)
(* updateActionWindow builds its array with filter(), and currentEnergy is  *)
(* a number passed by value.                                               *)
(***************************************************************************)
\* a processActions that pushes onto context.actionWindow.actions and
\* writes the remaining energy back
MutProcessActionsInPlace(actions, context, currentEnergy, getCost) ==
    LET r == processActions(actions, context, currentEnergy, getCost)
    IN  [ context       |-> [context EXCEPT !.actionWindow = r.updatedWindow],
          currentEnergy |-> currentEnergy - r.totalCost ]

\* the caller's context object and energy value when the call has returned
ArgumentsAfterCall(actions, context, currentEnergy, getCost) ==
    [context |-> context, currentEnergy |-> currentEnergy]

\* the host calls processActions and holds the returned value
CallProcessActions ==
    /\ calls = 0
    /\ \E actions \in Batches :
          LET r     == processActions(actions, ctx, energy, TestCost)
              after == ArgumentsAfterCall(actions, ctx, energy, TestCost)
          IN  /\ last' = [ t             |-> "call",
                           actions       |-> actions,
                           context       |-> ctx,
                           currentEnergy |-> energy,
                           getCost       |-> TestCost,
                           tick          |-> tick,
                           results       |-> r.results,
                           totalCost     |-> r.totalCost,
                           updatedWindow |-> r.updatedWindow,
                           injected      |-> processActions(Inject(actions), ctx, energy, TestCost),
                           limitedAt     |-> limitedAt,
                           lastExecuted  |-> LastOf(hist, -1) ]
              /\ ctx' = after.context
              /\ energy' = after.currentEnergy
    /\ calls' = 1
    /\ UNCHANGED <<tick, hist, limitedAt>>
    /\ UNCHANGED admVars /\ UNCHANGED stepVars /\ UNCHANGED netVars

\* the host applies the returned value: the ledger takes totalCost, the
\* context takes updatedWindow
HostApplies ==
    /\ calls = 1
    /\ ctx' = [ctx EXCEPT !.actionWindow = last.updatedWindow]
    /\ energy' = energy - last.totalCost
    /\ hist' = hist \o [i \in 1..ExecutedCount(last.results) |-> tick]
    /\ calls' = 2
    /\ UNCHANGED <<tick, last, limitedAt>>
    /\ UNCHANGED admVars /\ UNCHANGED stepVars /\ UNCHANGED netVars

NextCall == CallProcessActions \/ HostApplies

SpecCall == InitBatch /\ [][NextCall]_vars

MaxRawCells == 3
MaxRawFields == 3

NoiseScale == 10000

\* the smallest and the largest value of Math.random(), in hundredths
RandomDraws == {0, 99}

FieldKeys == <<"a", "b", "c", "d", "e">>

ObservedCell(dx, entityCount, nFields) ==
    [ dx |-> dx, dy |-> 0, zone |-> "FLUX",
      entityCount  |-> entityCount,
      traceDensity |-> 50,
      fields       |-> SubSeq(FieldKeys, 1, nFields) ]

\* rawCells.slice(0, maxCells) for a count maxCells >= 0
Slice(cells, maxCells) == SubSeq(cells, 1, Min2(Len(cells), maxCells))

\* Math.round of a non-negative quotient
RoundDiv(a, b) == (2 * a + b) \div (2 * b)

\* the loop over fieldKeys: key i (from 0) is kept when i < maxFields
LimitFields(fieldKeys, maxFields) ==
    LET kept(i) == (i - 1) < maxFields
    IN  [j \in 1..Cardinality({i \in 1..Len(fieldKeys) : kept(i)}) |-> fieldKeys[j]]

\* every field kept: the field budget not applied
MutDegradeCellAllFields(cell, budget, random) ==
    LET noiseMultiplier == NoiseScale + (2 * random - 100) * budget.noiseFloor
    IN  [cell EXCEPT !.entityCount  = RoundDiv(cell.entityCount * noiseMultiplier, NoiseScale),
                     !.traceDensity = cell.traceDensity * noiseMultiplier]

\* the callback of limitedCells.map
DegradeCell(cell, budget, random) ==
    LET noiseMultiplier == NoiseScale + (2 * random - 100) * budget.noiseFloor
    IN  [cell EXCEPT !.entityCount  = RoundDiv(cell.entityCount * noiseMultiplier, NoiseScale),
                     !.traceDensity = cell.traceDensity * noiseMultiplier,
                     !.fields       = LimitFields(cell.fields, budget.maxFields)]

degradeObservation(rawCells, granted, randoms) ==
    LET budget       == granted.observationBudget
        limitedCells == Slice(rawCells, budget.maxCells)
    IN  [ cells         |-> [i \in 1..Len(limitedCells) |->
                                DegradeCell(limitedCells[i], budget, randoms[i])],
          noiseApplied  |-> budget.noiseFloor,
          fieldsOmitted |-> Len(rawCells) - Len(limitedCells) ]

\* raw observations: cell i is at dx = i, with one field or MaxRawFields
RawObservations ==
    UNION { { [i \in 1..n |-> ObservedCell(i, 5 * i, k[i])] :
                k \in [1..n -> {1, MaxRawFields}] } : n \in 0..MaxRawCells }

ObservationGrants ==
    { [SandboxGrant(1, 2) EXCEPT !.observationBudget =
          [maxCells |-> c, maxFields |-> f, noiseFloor |-> 20]] :
        c \in 0..(MaxRawCells + 1), f \in 0..(MaxRawFields + 1) }

InitDegrade ==
    /\ ctx \in {createSandboxContext("agent:1", g, 0) : g \in ObservationGrants}
    /\ energy = 0 /\ tick = 0 /\ last = NoValue
    /\ calls = 0 /\ hist = <<>> /\ limitedAt = -1
    /\ IdleAdmission /\ IdleStep /\ IdleNet

\* the host degrades what the agent would see
Degrade ==
    /\ calls = 0
    /\ \E rawCells \in RawObservations :
       \E randoms \in [1..Len(rawCells) -> RandomDraws] :
          last' = [ t        |-> "degrade",
                    rawCells |-> rawCells,
                    granted  |-> ctx.granted,
                    result   |-> degradeObservation(rawCells, ctx.granted, randoms) ]
    /\ calls' = 1
    /\ UNCHANGED <<ctx, energy, tick, hist, limitedAt>>
    /\ UNCHANGED admVars /\ UNCHANGED stepVars /\ UNCHANGED netVars

NextDegrade == Degrade

SpecDegrade == InitDegrade /\ [][NextDegrade]_vars

Degraded == last.t = "degrade"

MaxSteps == 3
MaxPrice == 2

DEFAULT_ENERGY_FLOOR == 3
\* The configured sessionBudget / costBudget of the probe under test.
Budget == MaxPrice + 1
Prices == 0..MaxPrice
EnergyLevels == {DEFAULT_ENERGY_FLOOR - 1, DEFAULT_ENERGY_FLOOR, DEFAULT_ENERGY_FLOOR + 1}

Archetypes == {"LLM", "CBC", "JAP"}

\* The methods a step can end in, per archetype: executeDecision's switch for
\* the LLM probe, derive/create for the crafter, attemptJoint /
\* createJointCapable for the prospector.
Methods(archetype) ==
    CASE archetype = "LLM" -> {"executeCreate", "deriveTrace", "jointAttempt"}
      [] archetype = "CBC" -> {"create", "derive"}
      [] archetype = "JAP" -> {"attemptJoint", "createJointCapable"}

\* The quote endpoint, the quoted action and the state-changing endpoint of
\* each method.
Endpoints(method) ==
    CASE method \in {"executeCreate", "create", "createJointCapable"} ->
           [quote |-> "/v1/physics/quote", action |-> "CREATE_TRACE", act |-> "/v1/traces"]
      [] method \in {"deriveTrace", "derive"} ->
           [quote |-> "/v1/physics/quote", action |-> "DERIVE_TRACE", act |-> "/v1/traces/derive"]
      [] method \in {"jointAttempt", "attemptJoint"} ->
           [quote |-> "/v1/joint/quote", action |-> "JOINT", act |-> "/v1/joint/traces"]

StateChanging == {"/v1/traces", "/v1/traces/derive", "/v1/joint/traces"}

\* QuoteResponse / JointQuoteResponse: the joint quote has no energyAfter.
QuoteResponses(method) ==
    IF Endpoints(method).quote = "/v1/joint/quote"
      THEN [cost : Prices, allowed : BOOLEAN]
      ELSE [cost : Prices, allowed : BOOLEAN, energyAfter : EnergyLevels]

\* CreateTraceResponse / DeriveTraceResponse carry costPaid, JointTraceResponse
\* a status.
ActResponses(method) ==
    IF Endpoints(method).act = "/v1/joint/traces"
      THEN [status : {"created", "pending"}]
      ELSE [costPaid : Prices]

\* One request as the probe's HttpClient saw it: ok is response.ok, data the
\* parsed body (NoValue when the response carried none).
Request(path, action, ok, data) ==
    [path |-> path, action |-> action, ok |-> ok, data |-> data]

\* Variant of the checks after a quote that ignores quote.allowed.
MutQuoteAcceptedIgnoresAllowed(p, quote) ==
    CASE p.method \in {"executeCreate", "deriveTrace"} ->
           /\ ~(quote.energyAfter < p.energyFloor)
           /\ ~(p.totalCostSpent + quote.cost > p.budget)
      [] p.method = "jointAttempt" ->
           ~(p.totalCostSpent + quote.cost > p.budget)
      [] p.method \in {"create", "derive"} ->
           ~(p.totalCostSpent + quote.cost > p.budget)
      [] p.method \in {"attemptJoint", "createJointCapable"} -> TRUE

\* The checks between a successful quote and the state-changing request.
QuoteAccepted(p, quote) ==
    CASE p.method \in {"executeCreate", "deriveTrace"} ->
           /\ quote.allowed
           /\ ~(quote.energyAfter < p.energyFloor)
           /\ ~(p.totalCostSpent + quote.cost > p.budget)
      [] p.method = "jointAttempt" ->
           /\ quote.allowed
           /\ ~(p.totalCostSpent + quote.cost > p.budget)
      [] p.method \in {"create", "derive"} ->
           quote.allowed /\ ~(p.totalCostSpent + quote.cost > p.budget)
      [] p.method \in {"attemptJoint", "createJointCapable"} ->
           quote.allowed

\* step()'s first check: the LLM probe and the crafter stop at the budget, the
\* prospector has no budget.
BudgetExhausted(p) ==
    p.archetype \in {"LLM", "CBC"} /\ p.totalCostSpent >= p.budget

\* The probe after register(): a did, the energy the habitat reported, nothing
\* spent.
InitProbe ==
    /\ \E archetype \in Archetypes, e \in EnergyLevels :
          probe = [archetype |-> archetype, energyFloor |-> DEFAULT_ENERGY_FLOOR,
                   budget |-> Budget, energy |-> e, totalCostSpent |-> 0,
                   pc |-> "idle", method |-> "none", quote |-> NoValue, steps |-> 0]
    /\ wire = <<>> /\ http = NoValue /\ runner = NoValue
    /\ IdleAdmission /\ IdleSandbox /\ IdleStep

\* step() up to the perception: return at once when the budget is exhausted,
\* otherwise POST /v1/perception/perceive and return when it fails.
BeginStep ==
    /\ probe.pc = "idle" /\ probe.steps < MaxSteps
    /\ IF BudgetExhausted(probe)
         THEN /\ wire' = <<>>
              /\ probe' = [probe EXCEPT !.steps = @ + 1, !.method = "none", !.quote = NoValue]
         ELSE \E ok \in BOOLEAN :
                /\ wire' = <<Request("/v1/perception/perceive", "PERCEIVE", ok, NoValue)>>
                /\ probe' = [probe EXCEPT !.steps = @ + 1, !.method = "none", !.quote = NoValue,
                                           !.pc = IF ok THEN "decide" ELSE "idle"]
    /\ UNCHANGED <<http, runner>>
    /\ UNCHANGED admVars /\ UNCHANGED sbxVars /\ UNCHANGED stepVars

\* The decision: the LLM's answer (after a request to the FRUX API), or the
\* archetype's random choice; "none" is silence, a failed LLM call, a disabled
\* inquiry, or nothing to derive from or to join.
Decide ==
    /\ probe.pc = "decide"
    /\ \E method \in Methods(probe.archetype) \cup {"none"} :
          probe' = [probe EXCEPT !.method = method,
                                  !.pc = IF method = "none" THEN "idle" ELSE "quote"]
    /\ wire' = IF probe.archetype = "LLM"
                 THEN Append(wire, Request("/llm", "DECIDE", TRUE, NoValue))
                 ELSE wire
    /\ UNCHANGED <<http, runner>>
    /\ UNCHANGED admVars /\ UNCHANGED sbxVars /\ UNCHANGED stepVars

\* The quote request of the chosen method and the checks on its answer.
Quote ==
    /\ probe.pc = "quote"
    /\ \E ok \in BOOLEAN, hasData \in BOOLEAN, quote \in QuoteResponses(probe.method) :
          LET ends == Endpoints(probe.method)
              data == IF ok /\ hasData THEN quote ELSE NoValue
              withEnergy == IF ends.quote = "/v1/physics/quote"
                              THEN [probe EXCEPT !.energy = quote.energyAfter]
                              ELSE probe
          IN  /\ wire' = Append(wire, Request(ends.quote, ends.action, ok, data))
              /\ probe' =
                   IF ~ok \/ ~hasData
                     THEN [probe EXCEPT !.pc = "idle"]
                     ELSE IF QuoteAccepted(probe, quote)
                            THEN [withEnergy EXCEPT !.pc = "act", !.quote = quote]
                            ELSE [withEnergy EXCEPT !.pc = "idle"]
    /\ UNCHANGED <<http, runner>>
    /\ UNCHANGED admVars /\ UNCHANGED sbxVars /\ UNCHANGED stepVars

\* The state-changing request and the bookkeeping after its answer.
Act ==
    /\ probe.pc = "act"
    /\ \E ok \in BOOLEAN, response \in ActResponses(probe.method) :
          LET ends == Endpoints(probe.method)
              paid == IF ends.act = "/v1/joint/traces"
                        THEN IF response.status = "created" THEN probe.quote.cost ELSE 0
                        ELSE response.costPaid
          IN  /\ wire' = Append(wire, Request(ends.act, ends.action, ok,
                                              IF ok THEN response ELSE NoValue))
              /\ probe' = [probe EXCEPT !.pc = "idle",
                                         !.totalCostSpent = IF ok THEN @ + paid ELSE @]
    /\ UNCHANGED <<http, runner>>
    /\ UNCHANGED admVars /\ UNCHANGED sbxVars /\ UNCHANGED stepVars

NextProbe == BeginStep \/ Decide \/ Quote \/ Act
SpecProbe == InitProbe /\ [][NextProbe]_vars

Sent(i) == wire[i]
IsQuoteFor(q, a) ==
    /\ q.path \in {"/v1/physics/quote", "/v1/joint/quote"}
    /\ q.action = a.action

\* C23: a state-changing request is sent only after a quote request for that
\* action, made in the same step, came back successfully with allowed = true;
\* after a quote that failed or said allowed = false the step sends no
\* state-changing request.
QuoteBeforeAct ==
    probe # NoValue =>
      \A i \in DOMAIN wire :
        /\ Sent(i).path \in StateChanging =>
             \E j \in 1..(i - 1) :
                /\ IsQuoteFor(Sent(j), Sent(i))
                /\ Sent(j).ok /\ Sent(j).data # NoValue /\ Sent(j).data.allowed
        /\ (/\ Sent(i).path \in {"/v1/physics/quote", "/v1/joint/quote"}
            /\ (~Sent(i).ok \/ Sent(i).data = NoValue \/ ~Sent(i).data.allowed)) =>
             \A k \in DOMAIN wire : k > i => Sent(k).path \notin StateChanging

\* A prospector's joint attempt went out after its joint quote allowed it.
JointSentAfterQuote ==
    /\ probe # NoValue /\ probe.archetype = "JAP"
    /\ \E i \in DOMAIN wire : Sent(i).path = "/v1/joint/traces"

\* The energy the probe is left with if the request Sent(i) is carried out:
\* the quote's energyAfter, or for a joint attempt, whose quote has none, the
\* probe's energy less the quoted cost.
EnergyLeft(i) ==
    IF Sent(i).path = "/v1/joint/traces"
      THEN probe.energy - probe.quote.cost
      ELSE probe.quote.energyAfter

\* C24: the LLM probe sends no state-changing request, for any of its actions,
\* that would leave its energy below the configured energy floor.
EnergyFloorKept ==
    (probe # NoValue /\ probe.archetype = "LLM") =>
      \A i \in DOMAIN wire :
        Sent(i).path \in StateChanging => EnergyLeft(i) >= probe.energyFloor

\* C25: the totalCostSpent of an LLM probe or a Cost-Bound Crafter never
\* exceeds the configured budget, and a step that starts with the budget
\* reached sends no request.
SessionBudgetKept ==
    /\ []((probe # NoValue /\ probe.archetype \in {"LLM", "CBC"}) =>
             probe.totalCostSpent <= probe.budget)
    /\ [][(probe # NoValue /\ probe.pc = "idle" /\ BudgetExhausted(probe)) =>
             wire' = <<>>]_vars

\* ======================================================================
\* HttpClient.fetchWithRetry (src/core/http.ts)
\* ======================================================================

\* Bound: the largest configured maxRetries.
MaxRetries == 2

DEFAULT_BASE_DELAY_MS == 1000

RECURSIVE Pow2(_)
Pow2(n) == IF n <= 0 THEN 1 ELSE 2 * Pow2(n - 1)

\* What one fetch can do: throw (network error, or response.text() failing),
\* or answer with a status and a body that is empty, JSON, or other text.
Statuses == {200, 404, 429, 503}
Bodies == {"empty", "json", "text"}
FetchOutcomes ==
    {[t |-> "threw"]} \cup [t : {"response"}, status : Statuses, body : Bodies]

ResponseOk(status) == status >= 200 /\ status <= 299

HttpResponse(ok, status, payload) == [ok |-> ok, status |-> status, payload |-> payload]

\* Variant whose backoff doubles one attempt early.
MutAfterFailureEarlyDoubling(h) ==
    LET attempt == h.attempt + 1
        delay   == h.baseDelayMs * Pow2(attempt)
    IN  [h EXCEPT !.attempt = attempt,
                  !.sleeps = IF attempt <= h.maxRetries THEN Append(@, delay) ELSE @]

\* attempt++, then the backoff sleep when another attempt is allowed.
AfterFailure(h) ==
    LET attempt == h.attempt + 1
        delay   == h.baseDelayMs * Pow2(attempt - 1)
    IN  [h EXCEPT !.attempt = attempt,
                  !.sleeps = IF attempt <= h.maxRetries THEN Append(@, delay) ELSE @]

\* The return after the while loop.
Exhausted(h) ==
    IF h.result = NoValue /\ ~(h.attempt <= h.maxRetries)
      THEN [h EXCEPT !.result = HttpResponse(FALSE, 0, "lastError")]
      ELSE h

\* One iteration of the while loop with the fetch ending as `outcome`, and the
\* final return when the loop condition fails afterwards.
fetchWithRetry(h0, outcome) ==
    LET h == [h0 EXCEPT !.fetches = Append(@, outcome)]
    IN  IF outcome.t = "threw"
          THEN Exhausted(AfterFailure(h))
          ELSE LET ok == ResponseOk(outcome.status) IN
               IF outcome.body = "text" /\ ~ok
                 THEN [h EXCEPT !.result = HttpResponse(FALSE, outcome.status, "text")]
               ELSE IF ok
                 THEN [h EXCEPT !.result = HttpResponse(TRUE, outcome.status,
                                   IF outcome.body = "json" THEN "data" ELSE "undefined")]
               ELSE IF outcome.status = 429 \/ outcome.status >= 500
                 THEN LET r == AfterFailure(h) IN
                      IF r.attempt <= h.maxRetries
                        THEN r
                        ELSE [r EXCEPT !.result = HttpResponse(FALSE, outcome.status, "error")]
               ELSE [h EXCEPT !.result = HttpResponse(FALSE, outcome.status, "error")]

\* A get or post call about to make its first fetch.
InitHttp ==
    /\ \E maxRetries \in 0..MaxRetries :
          http = [maxRetries |-> maxRetries, baseDelayMs |-> DEFAULT_BASE_DELAY_MS,
                  attempt |-> 0, fetches |-> <<>>, sleeps |-> <<>>, result |-> NoValue]
    /\ probe = NoValue /\ wire = <<>> /\ runner = NoValue
    /\ IdleAdmission /\ IdleSandbox /\ IdleStep

Fetch ==
    /\ http.result = NoValue
    /\ \E outcome \in FetchOutcomes : http' = fetchWithRetry(http, outcome)
    /\ UNCHANGED <<probe, wire, runner>>
    /\ UNCHANGED admVars /\ UNCHANGED sbxVars /\ UNCHANGED stepVars

NextHttp == Fetch
SpecHttp == InitHttp /\ [][NextHttp]_vars
\* The event loop runs a pending fetch to its end.
SpecHttpLive == SpecHttp /\ WF_vars(Fetch)

Retryable(outcome) ==
    \/ outcome.t = "threw"
    \/ outcome.t = "response" /\ (outcome.status = 429 \/ outcome.status >= 500)

\* C27: a fetch that throws, or answers 429 or 500 and above, is followed by
\* another fetch as long as attempts remain; any other non-OK status is
\* returned as an error right after the fetch that received it.
RetryPolicy ==
    http.result # NoValue =>
      \A i \in DOMAIN http.fetches :
        LET outcome == http.fetches[i] IN
          /\ (Retryable(outcome) /\ i <= http.maxRetries) => i < Len(http.fetches)
          /\ (outcome.t = "response" /\ ~ResponseOk(outcome.status) /\ ~Retryable(outcome)) =>
                /\ i = Len(http.fetches)
                /\ ~http.result.ok /\ http.result.status = outcome.status

Blank == <<" ", " ">>
Padded == <<" ", "o", "k", " ">>

RECURSIVE TrimStart(_)
TrimStart(s) == IF s # <<>> /\ Head(s) = " " THEN TrimStart(Tail(s)) ELSE s
RECURSIVE TrimEnd(_)
TrimEnd(s) ==
    IF s # <<>> /\ s[Len(s)] = " " THEN TrimEnd(SubSeq(s, 1, Len(s) - 1)) ELSE s
\* String.prototype.trim
Trim(s) == TrimEnd(TrimStart(s))

\* JavaScript truthiness of an optional string.
Truthy(text) == text # Undefined /\ text # <<>>

\* FruxApiResponse bodies: the Smart API shape (success, result.message) and
\* the direct text field.
FruxBodies ==
    [success : BOOLEAN, message : {Undefined, Blank, Padded}, text : {Undefined, Padded}]

\* What one fetch can do: abort on the timeout, fail on the network, answer
\* with a non-OK status, or answer OK with a body.
FruxOutcomes ==
    {[t |-> "threw", name |-> "AbortError"], [t |-> "threw", name |-> "Error"]}
    \cup [t : {"status"}, status : {401, 500}]
    \cup [t : {"ok"}, data : FruxBodies]

\* The text callFruxLLM extracts from a body.
ExtractText(data) ==
    LET fromResult == IF data.success THEN data.message ELSE Undefined
    IN  IF ~Truthy(fromResult) THEN data.text ELSE fromResult

\* Variant that accepts any string, blank ones too.
MutUsableAnyString(text) == text # Undefined

\* typeof text === 'string' && text.trim().length > 0
Usable(text) == text # Undefined /\ Len(Trim(text)) > 0

FruxResult(ok, text, error) == [ok |-> ok, text |-> text, error |-> error]

\* The return after the for loop.
FruxExhausted(h) ==
    IF h.result = NoValue /\ ~(h.attempt <= h.maxRetries)
      THEN [h EXCEPT !.result = FruxResult(FALSE, Undefined, h.lastError)]
      ELSE h

\* One iteration of the for loop with the fetch ending as `outcome`, and the
\* final return when the loop condition fails afterwards.
callFruxLLM(h0, outcome) ==
    LET h    == [h0 EXCEPT !.fetches = Append(@, outcome)]
        next(lastError) == FruxExhausted([h EXCEPT !.attempt = @ + 1, !.lastError = lastError])
    IN  CASE outcome.t = "threw" ->
               next(IF outcome.name = "AbortError" THEN "Request timeout" ELSE "err.message")
          [] outcome.t = "status" ->
               IF outcome.status = 401
                 THEN [h EXCEPT !.result = FruxResult(FALSE, Undefined, "Invalid FRUX_API_KEY (401)"),
                                !.lastError = "HTTP 401"]
                 ELSE next("HTTP 500")
          [] outcome.t = "ok" ->
               LET text == ExtractText(outcome.data) IN
               IF Usable(text)
                 THEN [h EXCEPT !.result = FruxResult(TRUE, Trim(text), Undefined)]
                 ELSE next("Empty response from FRUX")

\* A call about to start, with or without an API key.
InitFrux ==
    /\ \E apiKey \in {"", "key"}, maxRetries \in 0..MaxRetries :
          http = [apiKey |-> apiKey, maxRetries |-> maxRetries, attempt |-> 0,
                  fetches |-> <<>>, lastError |-> "undefined", result |-> NoValue]
    /\ probe = NoValue /\ wire = <<>> /\ runner = NoValue
    /\ IdleAdmission /\ IdleSandbox /\ IdleStep

\* if (!config.apiKey) return ...
ReturnWithoutKey ==
    /\ http.result = NoValue /\ http.apiKey = ""
    /\ http' = [http EXCEPT !.result = FruxResult(FALSE, Undefined, "FRUX_API_KEY not configured")]
    /\ UNCHANGED <<probe, wire, runner>>
    /\ UNCHANGED admVars /\ UNCHANGED sbxVars /\ UNCHANGED stepVars

FruxAttempt ==
    /\ http.result = NoValue /\ http.apiKey # ""
    /\ \E outcome \in FruxOutcomes : http' = callFruxLLM(http, outcome)
    /\ UNCHANGED <<probe, wire, runner>>
    /\ UNCHANGED admVars /\ UNCHANGED sbxVars /\ UNCHANGED stepVars

NextFrux == ReturnWithoutKey \/ FruxAttempt
SpecFrux == InitFrux /\ [][NextFrux]_vars

Is401(outcome) == outcome.t = "status" /\ outcome.status = 401
\* A fetch that brought no text: a throw, a non-OK status, or an OK body
\* without a non-blank text.
FetchFailed(outcome) ==
    \/ outcome.t \in {"threw", "status"}
    \/ outcome.t = "ok" /\ (LET text == ExtractText(outcome.data)
                            IN  text = Undefined \/ Trim(text) = <<>>)

TimedOut == Returned /\ stepResult.error = "TIMEOUT"

\* C29: once executeStep has returned TIMEOUT, a step that resolves or rejects
\* afterwards changes nothing: the result stays as returned, it carries no
\* output, and the late rejection is a handled one.
LateSettleDiscarded ==
    /\ [](TimedOut => stepResult.output = Undefined /\ ~step.unhandled)
    /\ [][TimedOut => stepResult' = stepResult]_vars

\* executeStep returned TIMEOUT on the timer and the step's promise rejected
\* afterwards
RejectedAfterTimeout ==
    /\ TimedOut /\ timerFired
    /\ step.promise = "rejected" /\ step.settledAt > step.budgetMs + TimeoutBufferMs

\* C30: when executeStep returns because the step function threw, or its
\* promise rejected, before the timer fired, the result has code CRASH and the
\* thrown error's message, whatever was thrown.
CrashOnThrow ==
    [][(/\ spc # "done" /\ spc' = "done"
        /\ step'.promise \in {"threw", "rejected"}
        /\ stepResult'.t = "fulfilled") =>
          /\ stepResult'.error = "CRASH"
          /\ stepResult'.message = MessageOf(step'.value)]_vars

\* the value is of the shape { actions: list, computeTimeMs: number }
WellFormedOutput(v) ==
    v.t = "object" /\ v.actions = "array" /\ IsNum(v.computeTimeMs)

\* C31: when executeStep returns because the step came to a value that is not
\* of the shape { actions: list, computeTimeMs: number }, the result has code
\* INVALID_OUTPUT and no output.
MalformedOutputRejected ==
    [][(/\ spc # "done" /\ spc' = "done"
        /\ step'.promise \in {"returned", "fulfilled"}
        /\ ~WellFormedOutput(step'.value)) =>
          /\ stepResult'.error = "INVALID_OUTPUT"
          /\ stepResult'.output = Undefined]_vars

\* the self-reported compute times a step can put in its output
ReportedTimes == {Num(1), Num(50), Undefined}

\* C32: when the step wins the race, the error code and computeBudgetExceeded
\* are those any other reported computeTimeMs would have got at the same
\* measured time, and a measured time above the budget is flagged.
EnforcementIgnoresReport ==
    [][(/\ spc # "done" /\ spc' = "done"
        /\ step'.promise \in {"returned", "fulfilled"}) =>
          /\ step'.value.t = "object" =>
               \A c \in ReportedTimes :
                 LET other == AfterRace([step'.value EXCEPT !.computeTimeMs = c],
                                        stepResult'.actualComputeMs, step.budgetMs)
                 IN  /\ other.error = stepResult'.error
                     /\ other.computeBudgetExceeded = stepResult'.computeBudgetExceeded
          /\ stepResult'.computeBudgetExceeded =
               (stepResult'.actualComputeMs > step.budgetMs)]_vars

\* a step reporting 1 ms won the race after more than its budget and is
\* flagged
SlowWinnerFlagged ==
    /\ Returned /\ step.promise = "fulfilled"
    /\ step.value.t = "object" /\ step.value.actions = "array"
    /\ step.value.computeTimeMs = Num(1)
    /\ stepResult.error = "none"
    /\ stepResult.actualComputeMs > step.budgetMs
    /\ stepResult.computeBudgetExceeded

\* the actions of the recorded batch that passed the capability and the
\* rate-limit check, in order
RECURSIVE PassedValidation(_)
PassedValidation(n) ==
    IF n = 0 THEN <<>>
    ELSE IF last.results[n].rejection \in {"CAPABILITY_NOT_GRANTED", "RATE_LIMIT_EXCEEDED"}
    THEN PassedValidation(n - 1)
    ELSE Append(PassedValidation(n - 1), last.actions[n])

\* C33: the checks run in the order capability, rate limit, price, energy: an
\* action without the capability is rejected CAPABILITY_NOT_GRANTED whatever
\* the window and the energy, a granted action facing a full window is
\* rejected RATE_LIMIT_EXCEEDED whatever its price, and getCost is called
\* exactly for the actions that passed both checks.
CheckOrder ==
    Called =>
        /\ \A i \in 1..Len(last.actions) :
              /\ ~CapabilityGranted(i) =>
                     last.results[i].rejection = "CAPABILITY_NOT_GRANTED"
              /\ (CapabilityGranted(i) /\ WindowCountBefore(i) >= LastLimit.max) =>
                     last.results[i].rejection = "RATE_LIMIT_EXCEEDED"
        /\ last.priced = PassedValidation(Len(last.actions))

\* with a full window and no energy, an ungranted action is rejected for its
\* capability and a granted one for the rate limit, and nothing is priced
FullWindowNoEnergy ==
    /\ Called
    /\ last.currentEnergy = 0
    /\ Len(last.context.actionWindow.actions) >= LastLimit.max
    /\ Len(last.actions) = 2
    /\ last.results[1].rejection = "CAPABILITY_NOT_GRANTED"
    /\ last.results[2].rejection = "RATE_LIMIT_EXCEEDED"
    /\ last.priced = <<>>

\* the entries the recorded call appended: the last ExecutedCount entries of
\* the returned window
AppendedEntries ==
    LET n       == ExecutedCount(last.results)
        entries == last.updatedWindow.actions
    IN  SubSeq(entries, Len(entries) - n + 1, Len(entries))

\* C34: every executed action is appended to the returned window as one
\* (tick, capability) entry whose tick is the tick at which the batch is
\* processed, on the first tick and on every later tick; rejected actions add
\* no entry.
EntriesCarryBatchTick ==
    Called =>
        /\ Len(last.updatedWindow.actions) >= ExecutedCount(last.results)
        /\ Len(last.updatedWindow.actions) <=
               Len(last.context.actionWindow.actions) + ExecutedCount(last.results)
        /\ \A k \in 1..Len(AppendedEntries) :
              /\ AppendedEntries[k].tick = last.tick
              /\ AppendedEntries[k].type = "MOVE"

\* ======================================================================
\* updateActionWindow called on its own
\* ======================================================================

\* Bound: entries in the window passed in, and new actions.
MaxEntries == 2

EntryTicks == 0..3
WindowEntries == [tick : EntryTicks, type : {"MOVE", "SENSE"}]
Windows ==
    { [actions |-> a, windowStart |-> ws] :
        a \in UNION {[1..n -> WindowEntries] : n \in 0..MaxEntries}, ws \in {0, 1} }
NewActions == UNION {[1..n -> {Plain("MOVE"), Plain("SENSE")}] : n \in 0..MaxEntries}

\* the window object passed in, as it is after the call: filter builds a new
\* array and the pushes go to that array
WindowAfterUpdate(window, currentTick, windowTicks, newActions) == window

InitWindow ==
    /\ last = NoValue
    /\ calls = 0
    /\ ctx = NoValue /\ energy = 0 /\ tick = 0 /\ hist = <<>> /\ limitedAt = -1
    /\ IdleAdmission /\ IdleStep /\ IdleNet

UpdateWindow ==
    /\ calls = 0
    /\ \E window \in Windows, currentTick \in EntryTicks, windowTicks \in 1..3,
          newActions \in NewActions :
          last' = [ t           |-> "window",
                    window      |-> window,
                    currentTick |-> currentTick,
                    windowTicks |-> windowTicks,
                    newActions  |-> newActions,
                    result      |-> updateActionWindow(window, currentTick, windowTicks, newActions),
                    windowAfter |-> WindowAfterUpdate(window, currentTick, windowTicks, newActions) ]
    /\ calls' = 1
    /\ UNCHANGED <<ctx, energy, tick, hist, limitedAt>>
    /\ UNCHANGED admVars /\ UNCHANGED stepVars /\ UNCHANGED netVars

NextWindow == UpdateWindow
SpecWindow == InitWindow /\ [][NextWindow]_vars

\* the old entries at or after the start tick, in their old order
RECURSIVE KeptFrom(_, _)
KeptFrom(entries, start) ==
    IF entries = <<>> THEN <<>>
    ELSE IF Head(entries).tick >= start
    THEN <<Head(entries)>> \o KeptFrom(Tail(entries), start)
    ELSE KeptFrom(Tail(entries), start)

\* C35: updateActionWindow returns windowStart = max(0, currentTick -
\* windowTicks) and the old entries with tick >= windowStart in their old
\* order followed by one (currentTick, type) entry per new action, and leaves
\* the window it was given as it was.
WindowRecomputed ==
    last.t = "window" =>
        LET start == IF last.currentTick - last.windowTicks > 0
                     THEN last.currentTick - last.windowTicks ELSE 0
            kept  == KeptFrom(last.window.actions, start)
            out   == last.result.actions
        IN  /\ last.result.windowStart = start
            /\ Len(out) = Len(kept) + Len(last.newActions)
            /\ SubSeq(out, 1, Len(kept)) = kept
            /\ \A k \in 1..Len(last.newActions) :
                  out[Len(kept) + k] = [tick |-> last.currentTick,
                                        type |-> last.newActions[k].type]
            /\ last.windowAfter = last.window

\* an entry before windowStart dropped, one exactly at windowStart kept, and a
\* new entry added
OldDroppedBoundaryKept ==
    /\ last.t = "window"
    /\ last.currentTick = 3 /\ last.windowTicks = 2
    /\ last.window.actions = <<[tick |-> 0, type |-> "MOVE"], [tick |-> 1, type |-> "SENSE"]>>
    /\ last.newActions = <<Plain("MOVE")>>
    /\ last.result = [actions |-> <<[tick |-> 1, type |-> "SENSE"], [tick |-> 3, type |-> "MOVE"]>>,
                      windowStart |-> 1]

(***************************************************************************)
(* Schema violations: manifests that are objects with an agent and a       *)
(* requested section, each field either in order or violating its rule.    *)
(***************************************************************************)
LongName == [i \in 1..(MaxNameLength + 1) |-> "alpha"]
SchemaNames ==
    {Name(<<"alpha", "dash", "digit">>), Name(<<"digit", "alpha">>), Name(<<>>), Name(LongName)}
SchemaAgents ==
    { [t |-> "object", name |-> n, kind |-> k, entry |-> e] :
        n \in SchemaNames, k \in {Str("PROCESS"), Str("ROBOT")}, e \in {Str("main.js"), Str("")} }
SchemaRequested ==
    { [ t |-> "object", capabilities |-> caps, maxActionsPerWindow |-> Undefined,
        computeBudgetMsPerTick |-> compute,
        observationBudget |-> ObsBudget(Undefined, Undefined, noise),
        energyBudget |-> Undefined ] :
        caps \in {Arr(<<"MOVE">>), Arr(<<>>), Arr(<<"FLY", "MOVE">>)},
        compute \in {Undefined, Num(MinComputeBudget - 1), Num(MinComputeBudget),
                     Num(MaxComputeBudget), Num(MaxComputeBudget + 1)},
        noise \in {Undefined, Num(-1), Num(0), Num(MaxNoiseFloor), Num(MaxNoiseFloor + 1)} }
SchemaManifests ==
    { [ t |-> "object", manifestVersion |-> mv, agent |-> agent, requested |-> req,
        compat |-> Undefined, quarantine |-> Undefined ] :
        mv \in {Str("1.0"), Str("2.0")}, agent \in SchemaAgents, req \in SchemaRequested }

InitSchema ==
    /\ manifest \in SchemaManifests
    /\ policy = NoValue
    /\ validation = NoValue
    /\ admission = NoValue
    /\ apc = "submitted"
    /\ jsonString = NoValue /\ loaded = NoValue
    /\ IdleSandbox /\ IdleStep /\ IdleNet

NextSchema == Validate
SpecSchema == InitSchema /\ [][NextSchema]_vars

\* the fields of the manifest that violate their rule, by dotted path
ViolatedPaths ==
    LET agent == manifest.agent
        req   == manifest.requested
        n     == agent.name.chars
        c     == req.computeBudgetMsPerTick
        f     == req.observationBudget.noiseFloor
    IN  (IF manifest.manifestVersion # Str("1.0") THEN {"manifestVersion"} ELSE {})
        \cup (IF Len(n) = 0 \/ Len(n) > MaxNameLength \/ n[1] # "alpha"
                 \/ \E i \in 1..Len(n) : n[i] = "other"
              THEN {"agent.name"} ELSE {})
        \cup (IF agent.kind.s \notin {"WASM", "PROCESS", "BUILTIN"} THEN {"agent.kind"} ELSE {})
        \cup (IF agent.entry.s = "" THEN {"agent.entry"} ELSE {})
        \cup (IF req.capabilities.items = <<>>
                 \/ \E i \in 1..Len(req.capabilities.items) :
                       req.capabilities.items[i] \notin AgentCapability
              THEN {"requested.capabilities"} ELSE {})
        \cup (IF c # Undefined /\ (c.v < 1 \/ c.v > 100)
              THEN {"requested.computeBudgetMsPerTick"} ELSE {})
        \cup (IF f # Undefined /\ (f.v < 0 \/ f.v > 100)
              THEN {"requested.observationBudget.noiseFloor"} ELSE {})

\* C36: valid = true exactly when errors is empty, an empty
\* requested.capabilities is an error, and the paths of the errors are exactly
\* the fields that violate their rule: every violation is reported, not only
\* the first.
EveryViolationReported ==
    apc = "validated" =>
        /\ validation.valid <=> validation.errors = <<>>
        /\ {validation.errors[i] : i \in 1..Len(validation.errors)} = ViolatedPaths
        /\ manifest.requested.capabilities = Arr(<<>>) =>
               \E i \in 1..Len(validation.errors) :
                   validation.errors[i] = "requested.capabilities"

\* a manifest violating all seven rules gets seven errors
SevenViolations ==
    /\ apc = "validated"
    /\ ~validation.valid
    /\ validation.errors =
         <<"manifestVersion", "agent.name", "agent.kind", "agent.entry",
           "requested.capabilities", "requested.computeBudgetMsPerTick",
           "requested.observationBudget.noiseFloor">>

\* C37: totalCost is the sum of energyCost over the results, rejected results
\* cost nothing, and with non-negative prices and a non-negative starting
\* energy the running remaining energy never becomes negative, so totalCost
\* never exceeds the starting energy.
TotalCostBounded ==
    Called =>
        /\ last.totalCost = SumEnergyCost(last.results, Len(last.results))
        /\ \A i \in 1..Len(last.results) :
              ~last.results[i].executed => last.results[i].energyCost = 0
        /\ ((\A ty \in AgentCapability : last.getCost[ty] >= 0) /\ last.currentEnergy >= 0) =>
              /\ last.totalCost <= last.currentEnergy
              /\ \A i \in 1..(Len(last.actions) + 1) : RemainingBefore(i) >= 0

\* the batch spends the whole starting energy and its next action is
\* rejected for energy
EnergySpentExactly ==
    /\ Called
    /\ last.currentEnergy = 4 /\ last.getCost = TestCost
    /\ last.totalCost = 4
    /\ Len(last.results) = 3
    /\ last.results[3].rejection = "INSUFFICIENT_ENERGY"

(***************************************************************************)
(* Version strings as text: dot-separated components, each a run of        *)
(* characters.  parseSemver's pattern accepts exactly three non-empty runs  *)
(* of digits and parseInt turns each into a number.                        *)
(***************************************************************************)
Digits == {"0", "1", "2", "9"}
DigitValue(ch) ==
    CASE ch = "0" -> 0 [] ch = "1" -> 1 [] ch = "2" -> 2 [] ch = "9" -> 9

\* a parseInt that stops after the first digit
MutParseIntFirstDigit(run) == DigitValue(run[1])

\* parseInt on a non-empty run of digits
RECURSIVE ParseInt(_)
ParseInt(run) ==
    IF Len(run) = 1 THEN DigitValue(run[1])
    ELSE 10 * ParseInt(SubSeq(run, 1, Len(run) - 1)) + DigitValue(run[Len(run)])

\* (\d+): a non-empty run of digits
IsDigitRun(run) == Len(run) >= 1 /\ \A i \in 1..Len(run) : run[i] \in Digits

\* the version string with these components: its parts as parseSemver's
\* pattern and parseInt see them, -1 for a component that is no run of digits
VersionString(text) ==
    [ t     |-> "string",
      parts |-> [i \in 1..Len(text) |-> IF IsDigitRun(text[i]) THEN ParseInt(text[i]) ELSE -1],
      text  |-> text ]

Components == {<<"0">>, <<"9">>, <<"1", "2">>, <<"0", "9">>, <<"1", "b">>}
VersionTexts ==
    [1..3 -> Components] \cup {<<<<"0">>, <<"1", "2">>>>, <<<<"1">>, <<"0">>, <<"0">>, <<"0">>>>}
HostTexts ==
    { <<<<"0">>, <<"9">>, <<"0">>>>, <<<<"0">>, <<"1", "2">>, <<"0">>>>,
      <<<<"0">>, <<"1", "b">>, <<"0">>>>, <<<<"0">>, <<"1", "2">>>> }

InitSemver ==
    /\ \E required \in VersionTexts :
          manifest = Manifest(<<"MOVE">>, Undefined, Undefined, Undefined, Undefined,
                              [t |-> "object", minHabitatVersion |-> VersionString(required)])
    /\ \E host \in HostTexts :
          policy = [DEFAULT_WORLD_POLICY EXCEPT !.habitatVersion = VersionString(host)]
    /\ validation = NoValue
    /\ admission = NoValue
    /\ apc = "submitted"
    /\ jsonString = NoValue /\ loaded = NoValue
    /\ IdleSandbox /\ IdleStep /\ IdleNet

NextSemver == Validate \/ Admit
SpecSemver == InitSemver /\ [][NextSemver]_vars

\* the number a run of digits denotes
RECURSIVE Decimal(_, _)
Decimal(run, acc) ==
    IF run = <<>> THEN acc
    ELSE Decimal(Tail(run), 10 * acc + (CASE Head(run) = "0" -> 0 [] Head(run) = "1" -> 1
                                          [] Head(run) = "2" -> 2 [] Head(run) = "9" -> 9))

\* the text is major.minor.patch with numeric parts
ThreeNumericParts(text) ==
    Len(text) = 3 /\ \A i \in 1..3 : text[i] # <<>> /\ \A k \in 1..Len(text[i]) : text[i][k] \in Digits

\* text a is lower than text b, part by part as numbers
NumericallyLower(a, b) ==
    \E i \in 1..3 :
        /\ Decimal(a[i], 0) < Decimal(b[i], 0)
        /\ \A j \in 1..(i - 1) : Decimal(a[j], 0) = Decimal(b[j], 0)

\* C38: performAdmission rejects for the version exactly when both version
\* strings are major.minor.patch with numeric parts and the host's is lower
\* part by part as numbers; when either string is of another form it admits.
NumericVersionGate ==
    apc = "decided" =>
        LET host     == policy.habitatVersion.text
            required == manifest.compat.minHabitatVersion.text
        IN  /\ admission.t = "admission"
            /\ ~admission.admitted <=>
                  (/\ ThreeNumericParts(host) /\ ThreeNumericParts(required)
                   /\ NumericallyLower(host, required))

\* host 0.9.0 against required 0.12.0 is rejected
NineBelowTwelve ==
    /\ apc = "decided"
    /\ policy.habitatVersion.text = <<<<"0">>, <<"9">>, <<"0">>>>
    /\ manifest.compat.minHabitatVersion.text = <<<<"0">>, <<"1", "2">>, <<"0">>>>
    /\ ~admission.admitted

\* ======================================================================
\* The runner (src/runner.ts): runAgentStep, runTick and the main loop
\* ======================================================================

\* Bounds: registered agents, ticks of the main loop.
MaxAgents == 2
MaxRunnerTicks == 3

Agents == 1..MaxAgents

\* The main loop about to test `running` for the first time, with every
\* agent registered.
InitRunner ==
    /\ runner = [ running   |-> TRUE,
                  phase     |-> "loop",
                  tickCount |-> 0,
                  inFlight  |-> [a \in Agents |-> 0],
                  started   |-> [a \in Agents |-> 0],
                  failed    |-> {} ]
    /\ probe = NoValue /\ wire = <<>> /\ http = NoValue
    /\ IdleAdmission /\ IdleSandbox /\ IdleStep

\* while (running) { tickCount++; runTick(...) }: agents.map(runAgentStep)
\* calls every agent's step() in turn; a step that throws before its first
\* await is caught at once, the others are in flight.
StartTick ==
    /\ runner.phase = "loop" /\ runner.running
    /\ runner.tickCount < MaxRunnerTicks
    /\ \E throwers \in SUBSET Agents :
          runner' = [runner EXCEPT
                        !.phase = "tick",
                        !.tickCount = @ + 1,
                        !.started = [a \in Agents |-> @[a] + 1],
                        !.inFlight = [a \in Agents |-> IF a \in throwers THEN @[a] ELSE @[a] + 1],
                        !.failed = @ \cup throwers]
    /\ UNCHANGED <<probe, wire, http>>
    /\ UNCHANGED admVars /\ UNCHANGED sbxVars /\ UNCHANGED stepVars

\* an agent's step() promise resolves
StepCompletes ==
    /\ \E a \in Agents :
          /\ runner.inFlight[a] > 0
          /\ runner' = [runner EXCEPT !.inFlight[a] = @ - 1]
    /\ UNCHANGED <<probe, wire, http>>
    /\ UNCHANGED admVars /\ UNCHANGED sbxVars /\ UNCHANGED stepVars

\* a runAgentStep without its try/catch: the rejection reaches Promise.all
\* and main
MutStepFailsUncaught ==
    /\ \E a \in Agents :
          /\ runner.inFlight[a] > 0
          /\ runner' = [runner EXCEPT !.inFlight[a] = @ - 1, !.failed = @ \cup {a},
                                       !.phase = "crashed"]
    /\ UNCHANGED <<probe, wire, http>>
    /\ UNCHANGED admVars /\ UNCHANGED sbxVars /\ UNCHANGED stepVars

\* an agent's step() promise rejects: runAgentStep's catch logs step_error
\* and its own promise resolves
StepFails ==
    /\ \E a \in Agents :
          /\ runner.inFlight[a] > 0
          /\ runner' = [runner EXCEPT !.inFlight[a] = @ - 1, !.failed = @ \cup {a}]
    /\ UNCHANGED <<probe, wire, http>>
    /\ UNCHANGED admVars /\ UNCHANGED sbxVars /\ UNCHANGED stepVars

\* a runTick that awaits Promise.race: the first settled step ends the tick
MutTickEndsOnFirst ==
    /\ runner.phase = "tick"
    /\ \E a \in Agents : runner.inFlight[a] = 0
    /\ runner' = [runner EXCEPT !.phase = "sleep"]
    /\ UNCHANGED <<probe, wire, http>>
    /\ UNCHANGED admVars /\ UNCHANGED sbxVars /\ UNCHANGED stepVars

\* Promise.all resolves once every runAgentStep promise has; main goes on to
\* sleep(tickIntervalMs)
TickEnds ==
    /\ runner.phase = "tick"
    /\ \A a \in Agents : runner.inFlight[a] = 0
    /\ runner' = [runner EXCEPT !.phase = "sleep"]
    /\ UNCHANGED <<probe, wire, http>>
    /\ UNCHANGED admVars /\ UNCHANGED sbxVars /\ UNCHANGED stepVars

\* the sleep is over: back to the loop condition
Wake ==
    /\ runner.phase = "sleep"
    /\ runner' = [runner EXCEPT !.phase = "loop"]
    /\ UNCHANGED <<probe, wire, http>>
    /\ UNCHANGED admVars /\ UNCHANGED sbxVars /\ UNCHANGED stepVars

\* SIGINT or SIGTERM: running = false
Signal ==
    /\ runner.running /\ runner.phase \in {"loop", "tick", "sleep"}
    /\ runner' = [runner EXCEPT !.running = FALSE]
    /\ UNCHANGED <<probe, wire, http>>
    /\ UNCHANGED admVars /\ UNCHANGED sbxVars /\ UNCHANGED stepVars

\* the loop condition fails: final summary and exit
Exit ==
    /\ runner.phase = "loop" /\ ~runner.running
    /\ runner' = [runner EXCEPT !.phase = "stopped"]
    /\ UNCHANGED <<probe, wire, http>>
    /\ UNCHANGED admVars /\ UNCHANGED sbxVars /\ UNCHANGED stepVars

NextRunner ==
    StartTick \/ StepCompletes \/ StepFails \/ TickEnds \/ Wake \/ Signal \/ Exit
SpecRunner == InitRunner /\ [][NextRunner]_vars
\* Every step started settles, timers fire and the loop runs on; signals
\* come or do not.
SpecRunnerLive ==
    SpecRunner /\ WF_vars(StartTick) /\ WF_vars(StepCompletes \/ StepFails)
               /\ WF_vars(TickEnds) /\ WF_vars(Wake) /\ WF_vars(Exit)

\* C39: a failing step stops neither the tick nor the other agents' steps
\* nor later ticks: the loop is never left through an error, every agent's
\* step has been started once per tick, and unless the runner is told to stop
\* the loop reaches every tick.
FailuresContained ==
    /\ [](/\ runner.phase \in {"loop", "tick", "sleep", "stopped"}
          /\ runner.phase = "stopped" => ~runner.running
          /\ \A a \in Agents : runner.started[a] = runner.tickCount)
    /\ <>(~runner.running \/ runner.tickCount = MaxRunnerTicks)

\* every agent failed in an earlier tick and the steps of a later tick have
\* all been started
TickAfterFailures ==
    /\ runner # NoValue
    /\ runner.failed = Agents
    /\ runner.tickCount = MaxRunnerTicks /\ runner.running
    /\ \A a \in Agents : runner.started[a] = MaxRunnerTicks /\ runner.inFlight[a] = 1

\* C40: a tick starts only when no step of the tick before is in flight, so
\* no agent ever has two steps in flight.
TicksSerialised ==
    /\ [](\A a \in Agents : runner.inFlight[a] <= 1)
    /\ [][runner'.tickCount # runner.tickCount =>
             \A a \in Agents : runner.inFlight[a] = 0]_vars

\* the second tick started after the agents finished the first in different
\* ways, and one agent is done with the second while the other still runs
SecondTickUneven ==
    /\ runner # NoValue
    /\ runner.tickCount = 2 /\ runner.phase = "tick"
    /\ runner.failed = {1}
    /\ runner.inFlight[1] = 0 /\ runner.inFlight[2] = 1

====
